---------------------------- MODULE Spec2Model ----------------------------
(***************************************************************************)
(* A model of the IMSCC downgrader (src/DowngradeIMSCC_v1.4.2.py).         *)
(*                                                                         *)
(* Reference strings are sequences of ASCII code points, so that percent   *)
(* decoding and encoding are computed character by character as            *)
(* urllib.parse.unquote / urllib.parse.quote compute them.                 *)
(***************************************************************************)
EXTENDS Integers, Sequences, FiniteSets, TLC

VARIABLES
    \* --- canonicalize_href applied to reference strings -----------------
    cpc,        \* position of the canonicalization run
    cx,         \* the reference string given
    cy,         \* an encoding variant of cx (one raw character escaped)
    c1,         \* canonicalize_href(cx)
    c2,         \* canonicalize_href(c1), resp. canonicalize_href(cy)
    \* --- the organization item trees (static shape of the input) --------
    iparent,    \* item -> its parent item, 0 for the organization element
    iref,       \* item -> its identifierref ("" when it has none)
    \* --- cascading removal applied to a manifest graph ------------------
    rpc,        \* position of the removal run
    g0,         \* the manifest graph given
    seedA,      \* first set of removed resource identifiers
    seedB,      \* second set of removed resource identifiers
    gA,         \* g0 after removal with seedA
    gAB,        \* gA after removal with seedB
    gAA,        \* gA after removal with seedA again
    gU,         \* g0 after one removal with seedA \cup seedB
    \* --- the true/false normalizer and its verifier on one QTI file ------
    tpc,        \* position of the run: "fix", "verify", "raised", "passed"
    fallback,   \* the fallback_tf_to_mc option
    qorig,      \* the items of the file as given
    qfile,      \* the items of the file as they are now
    qidx,       \* the index of the next item of the loop
    outcomes,   \* per item handled: the counter it incremented, or "none"
    tf_fixed,   \* ChangeLog.tf_fixed
    tf_mc_fallback, \* ChangeLog.tf_mc_fallback
    tf_skipped, \* ChangeLog.tf_skipped
    \* --- process_cartridge ------------------------------------------------
    pc,         \* the step the run is at, "returned" or "raised" at its end
    exclude_kinds, \* the exclude_kinds option
    has_manifest, \* whether the package holds an imsmanifest.xml at all
    at_root,    \* whether imsmanifest.xml lies at the root of the package
    input,      \* the package given: its manifest and its payload files
    tree,       \* the parsed manifest (the ElementTree the steps edit)
    saved,      \* the manifest file as last written
    disk,       \* the payload files of the extraction folder
    removed_any, \* the identifiers removed by steps 6 and 7
    out,        \* the archive written to the output directory
    \* --- the text sweep with V12_TO_V11_SCHEMA_REPLACEMENTS ----------------
    sorig,      \* the text given to the sweep
    stext,      \* the text after the rules applied so far
    sidx,       \* the index of the rule applied next
    \* --- prune_items_with_missing_resources, run twice --------------------
    ppc,        \* "first", "second" (the runs of the pruner) or "done"
    pvalid,     \* valid_res_ids
    ptodo,      \* the items prune_item_children has still to decide, in order
    patt,       \* the items attached to their parent
    pfirst      \* the items attached when the first run returned

canonVars == <<cpc, cx, cy, c1, c2>>
itemVars == <<iparent, iref>>
removeVars == <<rpc, g0, seedA, seedB, gA, gAB, gAA, gU>>
tfRunVars == <<tpc, qorig, qfile, qidx, outcomes>>
tfLogVars == <<fallback, tf_fixed, tf_mc_fallback, tf_skipped>>
tfVars == <<tfRunVars, tfLogVars>>
pipeVars == <<pc, exclude_kinds, has_manifest, at_root, input, tree, saved, disk, removed_any, out>>
sweepVars == <<sorig, stext, sidx>>
pruneVars == <<ppc, pvalid, ptodo, patt, pfirst>>

vars == <<cpc, cx, cy, c1, c2, iparent, iref,
          rpc, g0, seedA, seedB, gA, gAB, gAA, gU,
          tpc, fallback, qorig, qfile, qidx, outcomes,
          tf_fixed, tf_mc_fallback, tf_skipped,
          pc, exclude_kinds, has_manifest, at_root, input, tree, saved, disk, removed_any, out,
          sorig, stext, sidx, ppc, pvalid, ptodo, patt, pfirst>>

\* What the actions of one specification leave alone.
canonOthers == <<itemVars, removeVars, tfVars, pipeVars, sweepVars, pruneVars>>
removeOthers == <<canonVars, itemVars, tfVars, pipeVars, sweepVars, pruneVars>>
tfOthers == <<canonVars, itemVars, removeVars, pipeVars, sweepVars, pruneVars>>
pipeOthers == <<canonVars, itemVars, removeVars, tfRunVars, sweepVars, pruneVars>>
sweepOthers == <<canonVars, itemVars, removeVars, tfVars, pipeVars, pruneVars>>
pruneOthers == <<canonVars, itemVars, removeVars, tfVars, pipeVars, sweepVars>>

(***************************************************************************)
(* Percent-encoding (urllib.parse.unquote / quote with safe="/-_.~")        *)
(***************************************************************************)

\* Longest reference string drawn as an input of canonicalize_href.
MaxLen == 3

PCT == 37

\* The characters input strings are drawn from:  % 2 0 5 space x / A
Alphabet == {37, 50, 48, 53, 32, 120, 47, 65}

IsDigit(c) == c \in 48..57
IsUpperHex(c) == c \in 65..70
IsLowerHex(c) == c \in 97..102
IsHex(c) == IsDigit(c) \/ IsUpperHex(c) \/ IsLowerHex(c)

HexVal(c) == IF IsDigit(c) THEN c - 48
             ELSE IF IsUpperHex(c) THEN c - 55
             ELSE c - 87

\* "%02X" of one nibble
HexDigit(n) == IF n < 10 THEN 48 + n ELSE 55 + n

IsAlnum(c) == IsDigit(c) \/ c \in 65..90 \/ c \in 97..122

\* quote(): letters, digits and "_.-~" are never quoted; safe adds "/".
IsSafe(c) == IsAlnum(c) \/ c \in {47, 45, 95, 46, 126}

\* Does an escape %XX start at position i of s ?
IsEscapeAt(s, i) == /\ i + 2 <= Len(s)
                    /\ s[i] = PCT
                    /\ IsHex(s[i + 1])
                    /\ IsHex(s[i + 2])

RECURSIVE Unquote(_)
Unquote(s) ==
    IF s = <<>> THEN <<>>
    ELSE IF IsEscapeAt(s, 1)
         THEN <<16 * HexVal(s[2]) + HexVal(s[3])>> \o Unquote(SubSeq(s, 4, Len(s)))
         ELSE <<Head(s)>> \o Unquote(Tail(s))

QuoteChar(c) == IF IsSafe(c) THEN <<c>>
                ELSE <<PCT, HexDigit(c \div 16), HexDigit(c % 16)>>

RECURSIVE Quote(_)
Quote(s) == IF s = <<>> THEN <<>> ELSE QuoteChar(Head(s)) \o Quote(Tail(s))

\* A plausible slip: encoding without decoding first.
canonicalize_href_noDecode(h) == Quote(h)

canonicalize_href(h) == Quote(Unquote(h))

\* The positions of s holding a raw character (not part of an escape %XX).
RECURSIVE RawFrom(_, _)
RawFrom(s, i) ==
    IF i > Len(s) THEN {}
    ELSE IF IsEscapeAt(s, i) THEN RawFrom(s, i + 3)
    ELSE {i} \cup RawFrom(s, i + 1)

RawPositions(s) == RawFrom(s, 1)

\* s with the raw character at position i written as its escape %XX.
EscapeAt(s, i) ==
    SubSeq(s, 1, i - 1)
        \o <<PCT, HexDigit(s[i] \div 16), HexDigit(s[i] % 16)>>
        \o SubSeq(s, i + 1, Len(s))

StringsUpTo(n) == UNION {[1..k -> Alphabet] : k \in 0..n}

(***************************************************************************)
(* The manifest graph: resources, dependency edges, organization items     *)
(***************************************************************************)

\* Most <item> elements of the organization in an input of the removal run.
MaxItems == 2

\* The identifiers of the <resource> elements of an input manifest.
Rids == {"r1", "r2"}

\* An identifier that names no <resource> of the input.
GhostId == "rX"

\* What an identifierref attribute may hold; "" stands for no attribute.
RefIds == Rids \cup {GhostId}
NoRef == ""

ItemIds == 1..MaxItems

\* Item trees: the parent of item i is the organization (0) or an earlier item.
ParentMaps(n) == {f \in [1..n -> 0..n] : \A i \in 1..n : f[i] < i}
RefMaps(n) == [1..n -> RefIds \cup {NoRef}]

\* The <item> elements still reachable from the organization element: an
\* item is in the document while it and every ancestor is attached.
RECURSIVE InDocument(_, _)
InDocument(att, i) ==
    /\ i \in att
    /\ iparent[i] = 0 \/ InDocument(att, iparent[i])

SurvivingItems(g) == {i \in DOMAIN iparent : InDocument(g.attached, i)}

\* The <dependency> elements of the resources in the manifest.
SurvivingDeps(g) == {<<r, d>> \in Rids \X RefIds : r \in g.present /\ d \in g.deps[r]}

\* The children of parent p in document order (items are numbered in
\* document order).
RECURSIVE ChildrenFrom(_, _, _)
ChildrenFrom(att, p, i) ==
    IF i > Len(iparent) THEN <<>>
    ELSE IF i \in att /\ iparent[i] = p
         THEN <<i>> \o ChildrenFrom(att, p, i + 1)
         ELSE ChildrenFrom(att, p, i + 1)

Children(att, p) == ChildrenFrom(att, p, 1)

\* Iterating a parent's live child list while removing from it: the element
\* after each removed one is skipped.
RECURSIVE SkippingHits(_, _)
SkippingHits(kids, removed_ids) ==
    IF kids = <<>> THEN {}
    ELSE IF iref[Head(kids)] \in removed_ids
         THEN {Head(kids)} \cup
              (IF Len(kids) > 1 THEN SkippingHits(Tail(Tail(kids)), removed_ids) ELSE {})
         ELSE SkippingHits(Tail(kids), removed_ids)

remove_items_referring_to_live(g, removed_ids) ==
    [g EXCEPT !.attached = @ \
        UNION {SkippingHits(Children(g.attached, p), removed_ids) :
                   p \in {0} \cup DOMAIN iparent}]

\* for parent in list(root.iter()): for child in list(parent):
\*     if child is an item whose identifierref is in removed_ids: parent.remove(child)
remove_items_referring_to(g, removed_ids) ==
    [g EXCEPT !.attached = @ \ {i \in DOMAIN iref : iref[i] \in removed_ids}]

\* for res in resources: for dep in list(res.findall(dependency)):
\*     if dep.identifierref in removed_ids: res.remove(dep)
remove_dependencies_referring_to(g, removed_ids) ==
    [g EXCEPT !.deps = [r \in Rids |-> IF r \in g.present
                                        THEN g.deps[r] \ removed_ids
                                        ELSE g.deps[r]]]

\* process_cartridge step 8
CascadeRemove(g, removed_ids) ==
    remove_dependencies_referring_to(remove_items_referring_to(g, removed_ids),
                                     removed_ids)

\* What is left of a graph: its resources, items and dependency edges.
Surviving(g) == <<g.present, SurvivingItems(g), SurvivingDeps(g)>>

(***************************************************************************)
(* QTI 1.2 true/false items (fix_qti_true_false_in_place and its verifier) *)
(*                                                                         *)
(* An item is what the code reads of an <item> element:                    *)
(*   qtype     the first question_type metadata entry ("" when none)       *)
(*   rl        whether the item has a <response_lid>                       *)
(*   labels    the <response_label> entries of the first <response_lid>,   *)
(*             each with its ident attribute and its first <mattext>       *)
(*   nested    whether those entries lie under a <render_choice> element   *)
(*             instead of being children of the <response_lid> itself      *)
(*   varequals the texts of respcondition/conditionvar/varequal            *)
(*   other     whether some conditionvar holds an <other> element          *)
(***************************************************************************)

\* Most <response_label> entries of an input item.
MaxLabels == 3

\* Most <varequal> answer-key references of an input item.
MaxVarequals == 1

TF_QTYPE == "true_false_question"
MC_QTYPE == "multiple_choice_question"

CanonicalWords == {"true", "false"}

\* str.lower() on the words the model draws texts and identifiers from.
Lower(s) == CASE s = "True" -> "true"
              [] s = "False" -> "false"
              [] s = "Maybe" -> "maybe"
              [] OTHER -> s

\* mattext_lower(el): the label's first mattext, stripped and lowercased
mattext_lower(l) == Lower(l.text)

\* labels = rl.findall('{*}response_label') if rl is not None else []
\* The path has one step, so only children of the response_lid are found.
LabelsOf(it) == IF it.rl /\ ~it.nested THEN it.labels ELSE <<>>

looks_tf(it) ==
    /\ it.rl
    /\ Len(LabelsOf(it)) >= 2
    /\ {mattext_lower(LabelsOf(it)[1]), mattext_lower(LabelsOf(it)[2])} \cap CanonicalWords # {}

\* An item the normalizer detects as a two-choice candidate.
is_tf(it) == it.qtype = TF_QTYPE \/ looks_tf(it)

\* drop_other(item)
drop_other(it) == [it EXCEPT !.other = FALSE]

\* The first index of seq whose label has lowercased text w, 0 when none.
RECURSIVE FirstWithText(_, _, _)
FirstWithText(labels, w, i) ==
    IF i > Len(labels) THEN 0
    ELSE IF mattext_lower(labels[i]) = w THEN i
    ELSE FirstWithText(labels, w, i + 1)

\* A variant that always keeps the first two labels.
CollapseKeep_firstTwo(labels) == <<1, 2>>

\* keep = [true_like[0], false_like[0]] if (true_like and false_like) else labels[:2]
\* as the pair of positions <<l1, l2>> of the labels kept.
CollapseKeep(labels) ==
    LET t == FirstWithText(labels, "true", 1)
        f == FirstWithText(labels, "false", 1)
    IN  IF t # 0 /\ f # 0 THEN <<t, f>> ELSE <<1, 2>>

\* correct_ident: the first non-empty varequal text, "" standing for None
RECURSIVE FirstNonEmpty(_)
FirstNonEmpty(vs) ==
    IF vs = <<>> THEN ""
    ELSE IF Head(vs) # "" THEN Head(vs)
    ELSE FirstNonEmpty(Tail(vs))

\* The mapping dict of old identifier -> canonical word, built by the
\* assignments of lines 811-818 in their order (a later assignment to the
\* same key wins).
MappingOf(id1, id2, t1, t2, correct) ==
    IF correct # "" /\ correct \in {id1, id2}
    THEN LET second == IF correct = id2 THEN id1 ELSE id2
         IN  [k \in {id1, id2} |-> IF k = second THEN "false" ELSE "true"]
    ELSE IF {t1, t2} = CanonicalWords
    THEN [k \in {id1, id2} |-> IF k = id2 THEN t2 ELSE t1]
    ELSE [k \in {id1, id2} |-> IF k = id2 THEN "false" ELSE "true"]

\* A variant that leaves the answer-key reference as it was.
RewriteVarequal_unchanged(val, mapping) == val

\* The rewrite of one varequal text (lines 825-834).
RewriteVarequal(val, mapping) ==
    IF val \in DOMAIN mapping THEN mapping[val]
    ELSE IF Lower(val) \in CanonicalWords THEN Lower(val)
    ELSE "false"

\* Lines 800-846: the two labels at positions p1 (l1) and p2 (l2) of the
\* item's label list are renamed, the answer key rewritten, the other labels
\* removed and the "other" branches dropped.
NormalizeTwo(it, p1, p2) ==
    LET l1 == it.labels[p1]
        l2 == it.labels[p2]
        id1 == l1.ident
        id2 == l2.ident
        mapping == MappingOf(id1, id2, mattext_lower(l1), mattext_lower(l2),
                             FirstNonEmpty(it.varequals))
        n1 == mapping[id1]
        n2 == mapping[id2]
        ves == [i \in DOMAIN it.varequals |-> RewriteVarequal(it.varequals[i], mapping)]
        forced == {Lower(n1), Lower(n2)} # CanonicalWords
        f1 == IF forced THEN "true" ELSE n1
        f2 == IF forced THEN "false" ELSE n2
        fves == IF forced
                THEN [i \in DOMAIN ves |-> IF Lower(ves[i]) = "true" THEN "true" ELSE "false"]
                ELSE ves
        \* the kept labels stay in document order
        kept == IF p1 < p2
                THEN <<[l1 EXCEPT !.ident = f1], [l2 EXCEPT !.ident = f2]>>
                ELSE <<[l2 EXCEPT !.ident = f2], [l1 EXCEPT !.ident = f1]>>
    IN  drop_other([it EXCEPT !.labels = kept, !.varequals = fves])

\* A variant whose skipped branch increments no counter.
FixItem_skipUncounted(it, fallback_tf_to_mc) ==
    IF ~is_tf(it) THEN [item |-> it, outcome |-> "none"]
    ELSE IF ~it.rl \/ Len(LabelsOf(it)) # 2
    THEN IF fallback_tf_to_mc
         THEN [item |-> drop_other([it EXCEPT !.qtype = IF @ = "" THEN "" ELSE MC_QTYPE]),
               outcome |-> "tf_mc_fallback"]
         ELSE IF it.rl /\ Len(LabelsOf(it)) > 2
         THEN LET keep == CollapseKeep(LabelsOf(it))
              IN  [item |-> NormalizeTwo(it, keep[1], keep[2]), outcome |-> "tf_fixed"]
         ELSE [item |-> it, outcome |-> "none"]
    ELSE [item |-> NormalizeTwo(it, 1, 2), outcome |-> "tf_fixed"]

\* One iteration of the loop over the items of a file (lines 767-846):
\* the item afterwards and the counter incremented.
FixItem(it, fallback_tf_to_mc) ==
    IF ~is_tf(it) THEN [item |-> it, outcome |-> "none"]
    ELSE IF ~it.rl \/ Len(LabelsOf(it)) # 2
    THEN IF fallback_tf_to_mc
         THEN [item |-> drop_other([it EXCEPT !.qtype = IF @ = "" THEN "" ELSE MC_QTYPE]),
               outcome |-> "tf_mc_fallback"]
         ELSE IF it.rl /\ Len(LabelsOf(it)) > 2
         THEN LET keep == CollapseKeep(LabelsOf(it))
              IN  [item |-> NormalizeTwo(it, keep[1], keep[2]), outcome |-> "tf_fixed"]
         ELSE [item |-> it, outcome |-> "tf_skipped"]
    ELSE [item |-> NormalizeTwo(it, 1, 2), outcome |-> "tf_fixed"]

\* _has_bad_tf_idents on one item (lines 861-879): whether the loop
\* returns True at this item.
ItemHasBadTF(it) ==
    LET labels == LabelsOf(it)
        is_tf_v == IF it.qtype = TF_QTYPE THEN TRUE
                   ELSE IF it.rl /\ Len(labels) = 2
                   THEN {mattext_lower(labels[1]), mattext_lower(labels[2])} = CanonicalWords
                   ELSE FALSE
    IN  IF ~is_tf_v THEN FALSE
        ELSE IF ~it.rl \/ Len(labels) # 2 THEN TRUE
        ELSE IF {Lower(labels[1].ident), Lower(labels[2].ident)} # CanonicalWords THEN TRUE
        ELSE \E i \in DOMAIN it.varequals : Lower(it.varequals[i]) \notin CanonicalWords

\* _has_bad_tf_idents on a questestinterop file: some item is bad
has_bad_tf_idents(items) == \E i \in DOMAIN items : ItemHasBadTF(items[i])

(***************************************************************************)
(* Paths, resource types and the extracted payload tree                    *)
(*                                                                         *)
(* A path is a reference string (a sequence of ASCII code points) relative *)
(* to the extraction folder; the payload tree is a function from the paths *)
(* of its files to their contents.                                         *)
(***************************************************************************)

\* "a.htm"
P_a_htm == <<97, 46, 104, 116, 109>>

\* "b c.htm"
P_b_c_htm == <<98, 32, 99, 46, 104, 116, 109>>

\* "b%20c.htm"
P_b20c_htm == <<98, 37, 50, 48, 99, 46, 104, 116, 109>>

\* "e+f.htm", "e%2Bf.htm" (its canonical form) and "e%2bf.htm"
P_e_f_htm == <<101, 43, 102, 46, 104, 116, 109>>
P_e2Bf_htm == <<101, 37, 50, 66, 102, 46, 104, 116, 109>>
P_e2bf_htm == <<101, 37, 50, 98, 102, 46, 104, 116, 109>>

\* "d.pdf"
P_d_pdf == <<100, 46, 112, 100, 102>>

\* "l.xml"
P_l_xml == <<108, 46, 120, 109, 108>>

\* "a.html"
P_a_html == <<97, 46, 104, 116, 109, 108>>

\* "q.xml"
P_q_xml == <<113, 46, 120, 109, 108>>

\* "q z.xml"
P_q_z_xml == <<113, 32, 122, 46, 120, 109, 108>>

\* "q%20z.xml"
P_q20z_xml == <<113, 37, 50, 48, 122, 46, 120, 109, 108>>

\* "q/assessment_qti.xml"
P_assessment == <<113, 47, 97, 115, 115, 101, 115, 115, 109, 101, 110, 116, 95,
                  113, 116, 105, 46, 120, 109, 108>>

\* ".html"
S_html == <<46, 104, 116, 109, 108>>

\* ".htm"
S_htm == <<46, 104, 116, 109>>

\* ".xml"
S_xml == <<46, 120, 109, 108>>

\* "/assessment_qti.xml"
S_slash_assessment == <<47, 97, 115, 115, 101, 115, 115, 109, 101, 110, 116, 95,
                        113, 116, 105, 46, 120, 109, 108>>

\* "assessment_qti.xml"
S_assessment == <<97, 115, 115, 101, 115, 115, 109, 101, 110, 116, 95,
                  113, 116, 105, 46, 120, 109, 108>>

\* ".xml.qti"
S_xml_qti == <<46, 120, 109, 108, 46, 113, 116, 105>>

\* "non_cc_assessments/"
S_non_cc == <<110, 111, 110, 95, 99, 99, 95, 97, 115, 115, 101, 115, 115, 109,
              101, 110, 116, 115, 47>>

\* "assignment.xml"
S_assignment_xml == <<97, 115, 115, 105, 103, 110, 109, 101, 110, 116, 46, 120, 109, 108>>

\* No href attribute (or an empty one).
NoHref == <<>>

SLASH == 47
DOT == 46

\* str.lower() on a reference string
LowerCode(c) == IF c \in 65..90 THEN c + 32 ELSE c
LowerStr(s) == [i \in DOMAIN s |-> LowerCode(s[i])]

\* s.endswith(suf), s.startswith(pre), sub in s
EndsWith(s, suf) ==
    Len(suf) <= Len(s) /\ SubSeq(s, Len(s) - Len(suf) + 1, Len(s)) = suf
StartsWith(s, pre) == Len(pre) <= Len(s) /\ SubSeq(s, 1, Len(pre)) = pre
Contains(s, sub) ==
    \E i \in 1..(Len(s) + 1) : i + Len(sub) - 1 <= Len(s)
                                /\ SubSeq(s, i, i + Len(sub) - 1) = sub

\* The position before the final component of a path (the last "/", else 0).
RECURSIVE LastIndexOf(_, _, _)
LastIndexOf(s, c, i) ==
    IF i = 0 THEN 0 ELSE IF s[i] = c THEN i ELSE LastIndexOf(s, c, i - 1)

NameOf(p) == SubSeq(p, LastIndexOf(p, SLASH, Len(p)) + 1, Len(p))

\* Path(p).suffix: from the last "." of the final component, "" when the
\* component has no "." after its first character or ends with one.
SuffixOf(p) ==
    LET name == NameOf(p)
        k == LastIndexOf(name, DOT, Len(name))
    IN  IF k <= 1 \/ k = Len(name) THEN <<>> ELSE SubSeq(name, k, Len(name))

\* Path(p).with_suffix(suf)
with_suffix(p, suf) == SubSeq(p, 1, Len(p) - Len(SuffixOf(p))) \o suf

\* href.lower().endswith(('.html', '.htm'))
IsHtmlish(href) == EndsWith(LowerStr(href), S_html) \/ EndsWith(LowerStr(href), S_htm)

\* The resource types of the inputs.
T_WEB == "webcontent"
T_QTI == "imsqti_xmlv1p2/imscc_xmlv1p1/assessment"
T_LTI == "imsbasiclti_xmlv1p0"
T_ASSIGN == "assignment_xmlv1p0"
T_DT12 == "imsdt_xmlv1p2"
T_DT11 == "imsdt_xmlv1p1"
T_WL12 == "imswl_xmlv1p2"
T_WL11 == "imswl_xmlv1p1"
T_EPUB == "idpfepub_epubv3p0"

\* "word in rtype" for the words the code looks for in a type string, on
\* the types above.
TypeHas(rtype, word) ==
    <<rtype, word>> \in
        { <<T_WEB, "webcontent">>,
          <<T_QTI, "imsqti">>, <<T_QTI, "imsqti_xml">>,
          <<T_LTI, "imsbasiclti">>, <<T_LTI, "basiclti">>,
          <<T_DT12, "imsdt">>, <<T_DT12, "imsdt_xmlv1p2">>,
          <<T_DT11, "imsdt">>,
          <<T_WL12, "imswl">>, <<T_WL12, "imswl_xmlv1p2">>,
          <<T_WL11, "imswl">> }

\* rtype.startswith(pfx) for pfx in ASSIGNMENT_TYPE_PREFIXES
TypeHasAssignmentPrefix(rtype) == rtype = T_ASSIGN

\* The contents of payload files, as far as the code looks into them.
HtmlContent == [kind |-> "html", items |-> <<>>]
BinContent == [kind |-> "bin", items |-> <<>>]
LtiContent == [kind |-> "lti", items |-> <<>>]
StubContent == [kind |-> "stub", items |-> <<>>]
PlaceholderContent == [kind |-> "placeholder", items |-> <<>>]
QtiContent(items) == [kind |-> "qti", items |-> items]

NoFiles == [q \in {} |-> HtmlContent]

\* Path.exists(), write_text, unlink, copy2, rename on the payload tree
Exists(d, q) == q \in DOMAIN d
WriteFile(d, q, c) == [x \in DOMAIN d \cup {q} |-> IF x = q THEN c ELSE d[x]]
Unlink(d, q) == [x \in DOMAIN d \ {q} |-> d[x]]
CopyFile(d, src, dst) == WriteFile(d, dst, d[src])
RenameFile(d, src, dst) == Unlink(WriteFile(d, dst, d[src]), src)

(***************************************************************************)
(* The manifest tree of process_cartridge and its edits                    *)
(*                                                                         *)
(* A tree holds, besides the graph fields present, deps and attached:      *)
(*   typ, href, file   per resource: its type, its href and the href of    *)
(*                     its first <file> child (NoHref when there is none)  *)
(*   extra             per resource: the hrefs of its further <file>       *)
(*                     children, in document order                         *)
(*   ver               the text of <schemaversion>                         *)
(*   markers           where a serialization of the tree would show one of *)
(*                     the words imsccv1p3, imscp_extensionv1p2, ccv1p3    *)
(*   v12uri            whether an attribute value or a text node holds a   *)
(*                     v1p2 URI that the rule table rewrites               *)
(***************************************************************************)

\* The <resource> elements in document order.
ResOrder == <<"r1", "r2">>

\* The hrefs of the <file> children of a resource, in document order.
FileRefs(t, r) == (IF t.file[r] = NoHref THEN <<>> ELSE <<t.file[r]>>) \o t.extra[r]

\* res.get(href) and the <file> hrefs of a resource, as the targets list
res_targets(t, r) ==
    {h \in {t.href[r]} \cup {FileRefs(t, r)[k] : k \in DOMAIN FileRefs(t, r)} : h # NoHref}

RemoveResources(t, ids) == [t EXCEPT !.present = @ \ ids]

\* remove_assignment_extension_resources: the identifiers removed
AssignmentIds(t) ==
    {r \in t.present : \/ TypeHasAssignmentPrefix(t.typ[r])
                       \/ Contains(LowerStr(t.href[r]), S_assignment_xml)}

\* is_lti_descriptor(p) for an existing file
is_lti_descriptor(d, q) == d[q].kind = "lti"

\* remove_lti_resources: the identifiers removed
LtiIds(t, d) ==
    {r \in t.present :
        \/ TypeHas(t.typ[r], "imsbasiclti")
        \/ TypeHas(t.typ[r], "basiclti")
        \/ TypeHas(t.typ[r], "lti_link")
        \/ \E q \in res_targets(t, r) :
              LowerStr(SuffixOf(q)) = S_xml /\ Exists(d, q) /\ is_lti_descriptor(d, q)}

\* p.read_text() finds the word in an existing .xml target
XmlTargetOfKind(t, d, r, kind) ==
    \E q \in res_targets(t, r) :
        LowerStr(SuffixOf(q)) = S_xml /\ Exists(d, q) /\ d[q].kind = kind

is_qti_resource(t, d, r) ==
    \/ TypeHas(t.typ[r], "imsqti")
    \/ \E q \in res_targets(t, r) :
          EndsWith(NameOf(q), S_assessment) \/ EndsWith(NameOf(q), S_xml_qti)
    \/ XmlTargetOfKind(t, d, r, "qti")

is_weblink_resource(t, d, r) ==
    TypeHas(t.typ[r], "imswl") \/ XmlTargetOfKind(t, d, r, "weblink")

is_discussion_resource(t, d, r) ==
    TypeHas(t.typ[r], "imsdt") \/ XmlTargetOfKind(t, d, r, "discussion")

IsWebcontentType(rtype) ==
    TypeHas(rtype, "webcontent") \/ TypeHas(rtype, "learning-application-resource")

is_webcontent_page(t, d, r) == IsWebcontentType(t.typ[r]) /\ IsHtmlish(t.href[r])

is_file_resource(t, d, r) ==
    /\ ~is_qti_resource(t, d, r)
    /\ ~is_weblink_resource(t, d, r)
    /\ ~is_discussion_resource(t, d, r)
    /\ ~is_webcontent_page(t, d, r)

\* The kinds --exclude accepts.
Kinds == {"qti", "discussion", "weblink", "page", "webcontent", "file"}

\* The if/elif chain of drop_resources_by_kind: the kind a resource is
\* dropped as, "" when it is kept.
KindHit(t, d, r, kinds) ==
    IF "qti" \in kinds /\ is_qti_resource(t, d, r) THEN "qti"
    ELSE IF "discussion" \in kinds /\ is_discussion_resource(t, d, r) THEN "discussion"
    ELSE IF "weblink" \in kinds /\ is_weblink_resource(t, d, r) THEN "weblink"
    ELSE IF "page" \in kinds /\ is_webcontent_page(t, d, r) THEN "page"
    ELSE IF "webcontent" \in kinds
         THEN (IF IsWebcontentType(t.typ[r]) THEN "webcontent" ELSE "")
    ELSE IF "file" \in kinds /\ is_file_resource(t, d, r) THEN "file"
    ELSE ""

DroppedIds(t, d, kinds) == {r \in t.present : KindHit(t, d, r, kinds) # ""}

\* drop_resources_by_kind: resources, their items and dependency edges
drop_resources_by_kind(t, d, kinds) ==
    LET ids == DroppedIds(t, d, kinds)
    IN  CascadeRemove(RemoveResources(t, ids), ids)

\* downshift_resource_types
downshift_resource_types(t) ==
    [t EXCEPT !.typ = [r \in Rids |-> IF t.typ[r] = T_DT12 THEN T_DT11
                                       ELSE IF t.typ[r] = T_WL12 THEN T_WL11
                                       ELSE t.typ[r]]]

\* The <schemaversion> texts: "1.0.0", "1.1.0", "1.2.0", "1.3.0"
V_1_0_0 == <<49, 46, 48, 46, 48>>
V_1_1_0 == <<49, 46, 49, 46, 48>>
V_1_2_0 == <<49, 46, 50, 46, 48>>
V_1_3_0 == <<49, 46, 51, 46, 48>>
V_1_10_0 == <<49, 46, 49, 48, 46, 48>>

\* "1.0", "1.1", "1."
S_1_0 == <<49, 46, 48>>
S_1_1 == <<49, 46, 49>>
S_1_dot == <<49, 46>>

\* ver.startswith('1.0') or ver.startswith('1.1')
IsTargetOrOlder(ver) == StartsWith(ver, S_1_0) \/ StartsWith(ver, S_1_1)

\* Where a forbidden word can sit in a manifest:
\*   "schemaLocation"  in the root's xsi:schemaLocation attribute
\*   "namespace"       in the namespace of elements (default CC namespace, LOM)
\*   "uri"             in a v1p3 URI of an attribute value or a text node
\*   "word"            as a bare word in an attribute value or a text node
MarkerKinds == {"schemaLocation", "namespace", "uri", "word"}

\* bump_manifest_version_and_namespaces, steps 1-3 on the tree
bump_tree(t) ==
    [t EXCEPT !.ver = IF @ # <<>> /\ (IsDigit(@[1]) \/ StartsWith(@, S_1_dot))
                                  /\ ~StartsWith(@, S_1_1)
                      THEN V_1_1_0 ELSE @,
              !.markers = @ \ {"schemaLocation"}]

\* bump_manifest_version_and_namespaces, step 5 on the manifest text: the
\* rule table rewrites the v1p3 URIs, bare words stay
sweep_text(m) ==
    [m EXCEPT !.markers = @ \ {"schemaLocation", "namespace", "uri"}, !.v12uri = FALSE]

\* normalize_default_ns: every element moves to a v1p1 namespace
normalize_default_ns(t) == [t EXCEPT !.markers = @ \ {"namespace"}]

\* assert_no_v13_v12_uris raises on this manifest text
HasForbiddenMarker(m) == m.markers # {}

\* fix_qti_resource_hrefs: the resources patched
QtiCandidates(t, r) ==
    SelectSeq(FileRefs(t, r), LAMBDA fh : EndsWith(fh, S_slash_assessment))

QtiHrefPatched(t) ==
    {r \in t.present : /\ TypeHas(t.typ[r], "imsqti_xml")
                       /\ t.href[r] = NoHref
                       /\ QtiCandidates(t, r) # <<>>}

fix_qti_resource_hrefs(t) ==
    [t EXCEPT !.href = [r \in Rids |-> IF r \in QtiHrefPatched(t)
                                        THEN Head(QtiCandidates(t, r))
                                        ELSE t.href[r]]]

\* _qti_item_count(xml_path) of an existing file
qti_item_count(d, q) == IF d[q].kind = "qti" THEN Len(d[q].items) ELSE 0

\* remove_empty_qti_assessments: the identifiers found empty
EmptyQtiIds(t, d) ==
    {r \in t.present : /\ TypeHas(t.typ[r], "imsqti")
                       /\ t.href[r] # NoHref
                       /\ \/ ~Exists(d, t.href[r])
                          \/ qti_item_count(d, t.href[r]) = 0}

remove_empty_qti_assessments(t, d) ==
    LET ids == EmptyQtiIds(t, d)
    IN  CascadeRemove(RemoveResources(t, ids), ids)

\* ensure_canonical_file(base_folder, relpath): the payload tree afterwards
ensure_canonical_file(d, relpath) ==
    LET enc == canonicalize_href(relpath)
        dec == Unquote(enc)
    IN  IF Exists(d, dec) /\ ~Exists(d, enc) THEN CopyFile(d, dec, enc) ELSE d

\* _first_href(res)
first_href(t, r) == IF t.href[r] # NoHref THEN t.href[r] ELSE t.file[r]

\* _point_res_to(res, rel_href)
point_res_to(t, r, rel) == [t EXCEPT !.href[r] = rel, !.file[r] = rel]

\* The body of the loop of sanitize_html_like_resources for one resource:
\* st holds the tree, the payload tree and the two counts.
SanitizeOne(st, r) ==
    IF r \notin st.t.present THEN st
    ELSE LET href_raw == first_href(st.t, r)
         IN  IF href_raw = NoHref
             THEN [st EXCEPT !.t = RemoveResources(st.t, {r}), !.removed = @ + 1]
             ELSE LET href_enc == canonicalize_href(href_raw)
                      d1 == ensure_canonical_file(st.d, href_enc)
                      is_page_like == \/ IsHtmlish(href_enc)
                                      \/ IsWebcontentType(st.t.typ[r])
                      stub_rel == with_suffix(href_enc, S_html)
                  IN  IF is_page_like /\ ~Exists(d1, href_enc)
                      THEN [t |-> point_res_to(st.t, r, stub_rel),
                            d |-> WriteFile(d1, stub_rel, StubContent),
                            removed |-> st.removed,
                            patched |-> st.patched + 1]
                      ELSE [t |-> point_res_to(st.t, r, href_enc),
                            d |-> d1,
                            removed |-> st.removed,
                            patched |-> IF href_enc # href_raw
                                        THEN st.patched + 1 ELSE st.patched]

\* A loop over the resources in document order.
RECURSIVE SanitizeFrom(_, _)
SanitizeFrom(st, i) ==
    IF i > Len(ResOrder) THEN st ELSE SanitizeFrom(SanitizeOne(st, ResOrder[i]), i + 1)

\* sanitize_html_like_resources(tree, base_folder)
sanitize_html_like_resources(t, d) ==
    SanitizeFrom([t |-> t, d |-> d, removed |-> 0, patched |-> 0], 1)

\* Step 13C, first loop: resources without href are removed, resources
\* whose html-like target is missing are listed.
FinalMissing(t, d) ==
    {r \in t.present : t.href[r] # NoHref /\ IsHtmlish(t.href[r]) /\ ~Exists(d, t.href[r])}

\* Step 13C, second loop, for one listed resource: a placeholder is written
\* and the resource pointed at it.
FinalPatchOne(st, r) ==
    IF r \notin st.missing THEN st
    ELSE LET placeholder_rel == with_suffix(st.t.href[r], S_html)
         IN  [st EXCEPT !.t = [point_res_to(st.t, r, placeholder_rel)
                                  EXCEPT !.extra[r] = <<>>],
                        !.d = WriteFile(st.d, placeholder_rel, PlaceholderContent)]

RECURSIVE FinalPatchFrom(_, _)
FinalPatchFrom(st, i) ==
    IF i > Len(ResOrder) THEN st ELSE FinalPatchFrom(FinalPatchOne(st, ResOrder[i]), i + 1)

\* Step 13C as a whole: the tree, the payload tree and the dirty flag.
final_audit(t, d) ==
    LET hrefless == {r \in t.present : t.href[r] = NoHref}
        t1 == RemoveResources(t, hrefless)
        missing == FinalMissing(t1, d)
        st == FinalPatchFrom([t |-> t1, d |-> d, missing |-> missing], 1)
    IN  [t |-> st.t, d |-> st.d, dirty |-> hrefless # {} \/ missing # {}]

\* prune_item_children visits the children of an item before the item, so
\* the items are handled from the last to the first in document order.
\* att is the set of attached items, i the item handled next.
RECURSIVE PruneFrom(_, _, _)
PruneFrom(att, valid_res_ids, i) ==
    IF i = 0 THEN att
    ELSE LET ref == iref[i]
             has_children == \E j \in att : iparent[j] = i
             gone == \/ ref # NoRef /\ ref \notin valid_res_ids
                     \/ ref = NoRef /\ ~has_children
         IN  PruneFrom(IF i \in att /\ gone THEN att \ {i} ELSE att,
                       valid_res_ids, i - 1)

\* A variant that removes only the empty containers.
prune_items_with_missing_resources_containersOnly(t) ==
    [t EXCEPT !.attached = @ \ {i \in @ : iref[i] = NoRef /\ ~\E j \in @ : iparent[j] = i}]

\* The items prune_items_with_missing_resources removes from their parents.
PrunedItems(t) ==
    SurvivingItems(t) \ PruneFrom(SurvivingItems(t), t.present, Len(iparent))

\* prune_items_with_missing_resources(tree)
prune_items_with_missing_resources(t) == [t EXCEPT !.attached = @ \ PrunedItems(t)]

\* A variant of the loop body that keeps every further <file> child.
NormalizeOne_keepExtras(st, r) ==
    IF r \notin st.t.present \/ st.t.href[r] = NoHref THEN st
    ELSE LET href == st.t.href[r]
             enc == canonicalize_href(href)
             candidates == <<Unquote(href), href, Unquote(enc)>>
             found == {k \in 1..3 : Exists(st.d, candidates[k])}
             src == candidates[CHOOSE k \in found : \A m \in found : k <= m]
             d1 == IF Exists(st.d, enc) THEN st.d
                   ELSE IF found # {} THEN CopyFile(st.d, src, enc)
                   ELSE WriteFile(st.d, enc, PlaceholderContent)
         IN  [t |-> point_res_to(st.t, r, enc),
              d |-> d1,
              changed_href |-> IF enc # href THEN st.changed_href + 1 ELSE st.changed_href,
              created_files |-> IF Exists(st.d, enc) THEN st.created_files
                                ELSE st.created_files + 1]

\* The body of the loop of normalize_resource_hrefs for one resource.
NormalizeOne(st, r) ==
    IF r \notin st.t.present \/ st.t.href[r] = NoHref THEN st
    ELSE LET href == st.t.href[r]
             enc == canonicalize_href(href)
             candidates == <<Unquote(href), href, Unquote(enc)>>
             found == {k \in 1..3 : Exists(st.d, candidates[k])}
             src == candidates[CHOOSE k \in found : \A m \in found : k <= m]
             d1 == IF Exists(st.d, enc) THEN st.d
                   ELSE IF found # {} THEN CopyFile(st.d, src, enc)
                   ELSE WriteFile(st.d, enc, PlaceholderContent)
         IN  [t |-> [point_res_to(st.t, r, enc)
                        EXCEPT !.extra[r] = SelectSeq(@, LAMBDA fh : fh = enc)],
              d |-> d1,
              changed_href |-> IF enc # href THEN st.changed_href + 1 ELSE st.changed_href,
              created_files |-> IF Exists(st.d, enc) THEN st.created_files
                                ELSE st.created_files + 1]

RECURSIVE NormalizeFrom(_, _)
NormalizeFrom(st, i) ==
    IF i > Len(ResOrder) THEN st ELSE NormalizeFrom(NormalizeOne(st, ResOrder[i]), i + 1)

\* normalize_resource_hrefs(tree, tmp)
normalize_resource_hrefs(t, d) ==
    NormalizeFrom([t |-> t, d |-> d, changed_href |-> 0, created_files |-> 0], 1)

\* sorted(hrefs): strings compare by code point, a proper prefix first
RECURSIVE LexLess(_, _)
LexLess(a, b) ==
    IF a = <<>> THEN b # <<>>
    ELSE IF b = <<>> THEN FALSE
    ELSE IF Head(a) # Head(b) THEN Head(a) < Head(b)
    ELSE LexLess(Tail(a), Tail(b))

RECURSIVE Sorted(_)
Sorted(S) ==
    IF S = {} THEN <<>>
    ELSE LET least == CHOOSE x \in S : \A y \in S \ {x} : LexLess(x, y)
         IN  <<least>> \o Sorted(S \ {least})

\* Every href the manifest holds: resource hrefs and file hrefs.
AllHrefs(t) == UNION {res_targets(t, r) : r \in t.present}

\* The body of the loop of enforce_decoded_payload for one href.
EnforceOne(st, h) ==
    LET enc == canonicalize_href(h)
        dec == Unquote(enc)
    IN  IF Exists(st.d, enc) /\ ~Exists(st.d, dec)
        THEN [st EXCEPT !.d = RenameFile(st.d, enc, dec), !.moved = @ + 1]
        ELSE IF Exists(st.d, enc) /\ Exists(st.d, dec)
        THEN [st EXCEPT !.d = Unlink(st.d, enc), !.removed = @ + 1]
        ELSE IF ~Exists(st.d, enc) /\ ~Exists(st.d, dec)
        THEN [st EXCEPT !.d = WriteFile(st.d, dec, PlaceholderContent), !.created = @ + 1]
        ELSE st

\* A variant that deletes the encoded file only when the decoded file is
\* another file.
EnforceOne_keepSame(st, h) ==
    LET enc == canonicalize_href(h)
        dec == Unquote(enc)
    IN  IF Exists(st.d, enc) /\ ~Exists(st.d, dec)
        THEN [st EXCEPT !.d = RenameFile(st.d, enc, dec), !.moved = @ + 1]
        ELSE IF Exists(st.d, enc) /\ Exists(st.d, dec)
        THEN [st EXCEPT !.d = IF enc = dec THEN @ ELSE Unlink(@, enc), !.removed = @ + 1]
        ELSE IF ~Exists(st.d, enc) /\ ~Exists(st.d, dec)
        THEN [st EXCEPT !.d = WriteFile(st.d, dec, PlaceholderContent), !.created = @ + 1]
        ELSE st

RECURSIVE EnforceFrom(_, _)
EnforceFrom(st, hs) ==
    IF hs = <<>> THEN st ELSE EnforceFrom(EnforceOne(st, Head(hs)), Tail(hs))

\* enforce_decoded_payload(tree, tmp)
enforce_decoded_payload(t, d) ==
    EnforceFrom([d |-> d, moved |-> 0, removed |-> 0, created |-> 0], Sorted(AllHrefs(t)))

\* dedupe_keep_decoded(root): of every pair of an encoded and a distinct
\* decoded file the encoded one is deleted.  No file of the runs modelled is
\* the encoded form of one file and the decoded form of another, so the
\* order of the directory walk does not matter.
dedupe_keep_decoded(d) ==
    LET doomed == {canonicalize_href(q) : q \in
                     {x \in DOMAIN d :
                        /\ canonicalize_href(x) # Unquote(canonicalize_href(x))
                        /\ Exists(d, canonicalize_href(x))
                        /\ Exists(d, Unquote(canonicalize_href(x)))}}
    IN  [x \in DOMAIN d \ doomed |-> d[x]]

\* rglob('*.xml'): the payload files the true/false passes open
IsXmlName(q) == EndsWith(NameOf(q), S_xml)

QtiXmlFiles(d) == {q \in DOMAIN d : IsXmlName(q) /\ d[q].kind = "qti"}

\* fix_qti_true_false_in_place on the content of one file
fix_qti_content(c, fallback_tf_to_mc) ==
    [c EXCEPT !.items = [i \in DOMAIN @ |-> FixItem(@[i], fallback_tf_to_mc).item]]

\* normalize_true_false_qti(root_folder, fallback_tf_to_mc, log): the files
normalize_true_false_qti(d, fallback_tf_to_mc) ==
    [q \in DOMAIN d |-> IF q \in QtiXmlFiles(d)
                        THEN fix_qti_content(d[q], fallback_tf_to_mc) ELSE d[q]]

\* ... and how often it increments the counter called name
RECURSIVE OutcomeCount(_, _, _, _)
OutcomeCount(d, files, fallback_tf_to_mc, name) ==
    IF files = {} THEN 0
    ELSE LET q == CHOOSE x \in files : TRUE
         IN  Cardinality({i \in DOMAIN d[q].items :
                             FixItem(d[q].items[i], fallback_tf_to_mc).outcome = name})
             + OutcomeCount(d, files \ {q}, fallback_tf_to_mc, name)

\* assert_no_bad_tf_idents(root_folder) raises
HasTfOffender(d) == \E q \in QtiXmlFiles(d) : has_bad_tf_idents(d[q].items)

\* detect_canvas_qti_artifacts(manifest_path, extracted_dir): should_force
IsNonCcQti(href) == StartsWith(href, S_non_cc) /\ EndsWith(href, S_xml_qti)

detect_canvas_qti_artifacts(m, d) ==
    \/ \E r \in m.present : \E k \in DOMAIN FileRefs(m, r) : IsNonCcQti(FileRefs(m, r)[k])
    \/ \E r \in m.present : \E ref \in m.deps[r] :
          ref \in m.present /\ IsNonCcQti(m.href[ref])
    \/ \E r \in m.present : \E k \in DOMAIN FileRefs(m, r) :
          EndsWith(FileRefs(m, r)[k], S_slash_assessment) /\ Exists(d, FileRefs(m, r)[k])

(***************************************************************************)
(* The state of a run that is not part of the specification at hand        *)
(***************************************************************************)

NoGraph == [present |-> {}, deps |-> [r \in Rids |-> {}], attached |-> {}]

CanonIdle ==
    /\ cpc = "idle"
    /\ cx = <<>>
    /\ cy = <<>>
    /\ c1 = <<>>
    /\ c2 = <<>>

ItemsIdle ==
    /\ iparent = <<>>
    /\ iref = <<>>

RemoveIdle ==
    /\ rpc = "idle"
    /\ g0 = NoGraph
    /\ seedA = {}
    /\ seedB = {}
    /\ gA = NoGraph
    /\ gAB = NoGraph
    /\ gAA = NoGraph
    /\ gU = NoGraph

TFIdle ==
    /\ tpc = "idle"
    /\ fallback = FALSE
    /\ qorig = <<>>
    /\ qfile = <<>>
    /\ qidx = 0
    /\ outcomes = <<>>
    /\ tf_fixed = 0
    /\ tf_mc_fallback = 0
    /\ tf_skipped = 0

\* A manifest with no resource, and no archive.
NoTree == [present |-> {}, deps |-> [r \in Rids |-> {}], attached |-> {},
           typ |-> [r \in Rids |-> ""], href |-> [r \in Rids |-> NoHref],
           file |-> [r \in Rids |-> NoHref], extra |-> [r \in Rids |-> <<>>],
           ver |-> <<>>, markers |-> {}, v12uri |-> FALSE]

NoArchive == [written |-> FALSE, man |-> NoTree, files |-> NoFiles]

PruneIdle ==
    /\ ppc = "idle"
    /\ pvalid = {}
    /\ ptodo = <<>>
    /\ patt = {}
    /\ pfirst = {}

SweepIdle ==
    /\ sorig = <<>>
    /\ stext = <<>>
    /\ sidx = 0

PipeIdle ==
    /\ pc = "idle"
    /\ exclude_kinds = {}
    /\ has_manifest = FALSE
    /\ at_root = TRUE
    /\ input = NoArchive
    /\ tree = NoTree
    /\ saved = NoTree
    /\ disk = NoFiles
    /\ removed_any = {}
    /\ out = NoArchive

(***************************************************************************)
(* Specification SpecCanon: canonicalize_href on bounded reference strings *)
(***************************************************************************)

CanonInit ==
    /\ cpc = "given"
    /\ cx \in StringsUpTo(MaxLen)
    /\ cy = <<>>
    /\ c1 = <<>>
    /\ c2 = <<>>
    /\ ItemsIdle
    /\ RemoveIdle
    /\ TFIdle
    /\ PipeIdle
    /\ SweepIdle
    /\ PruneIdle

\* canon(x)
Canonicalize ==
    /\ cpc = "given"
    /\ c1' = canonicalize_href(cx)
    /\ cpc' = "once"
    /\ UNCHANGED <<cx, cy, c2>>
    /\ UNCHANGED canonOthers

\* canon(canon(x))
Recanonicalize ==
    /\ cpc = "once"
    /\ c2' = canonicalize_href(c1)
    /\ cpc' = "twice"
    /\ UNCHANGED <<cx, cy, c1>>
    /\ UNCHANGED canonOthers

\* canon(y) for y an encoding variant of x: one raw character of x escaped
CanonicalizeVariant ==
    /\ cpc = "once"
    /\ \E i \in RawPositions(cx) :
          /\ cy' = EscapeAt(cx, i)
          /\ c2' = canonicalize_href(EscapeAt(cx, i))
    /\ cpc' = "variant"
    /\ UNCHANGED <<cx, c1>>
    /\ UNCHANGED canonOthers

CanonNext == Canonicalize \/ Recanonicalize \/ CanonicalizeVariant

SpecCanon == CanonInit /\ [][CanonNext]_vars

\* C5: canonicalize_href is idempotent, canon(canon(x)) = canon(x), and two
\* percent-encoding variants of one logical path (a raw character versus its
\* escape, such as a raw space versus %20) have the same canonical form.
C5_CanonIdempotentAndVariantStable ==
    /\ cpc = "twice" => c2 = c1
    /\ cpc = "variant" => c2 = c1

\* A raw space and its escape %20 have been canonicalized to the same string,
\* and a string whose canonical form differs from it was canonicalized twice.
C5_Witness ==
    \/ /\ cpc = "variant"
       /\ cx = <<120, 32>>
       /\ cy = <<120, 37, 50, 48>>
       /\ c2 = <<120, 37, 50, 48>>

(***************************************************************************)
(* Specification SpecRemove: cascading removal with two seed sets          *)
(***************************************************************************)

RemoveInit ==
    /\ rpc = "given"
    /\ iparent \in ParentMaps(MaxItems)
    /\ iref \in RefMaps(MaxItems)
    /\ seedA \in SUBSET Rids
    /\ seedB \in SUBSET Rids
    /\ \E d \in [Rids -> SUBSET RefIds] :
          /\ \A r \in Rids : r \notin d[r]
          /\ g0 = [present |-> Rids,
                   deps |-> d,
                   attached |-> ItemIds]
    /\ gA = NoGraph
    /\ gAB = NoGraph
    /\ gAA = NoGraph
    /\ gU = NoGraph
    /\ CanonIdle
    /\ TFIdle
    /\ PipeIdle
    /\ SweepIdle
    /\ PruneIdle

RemoveWithA ==
    /\ rpc = "given"
    /\ gA' = CascadeRemove(g0, seedA)
    /\ rpc' = "A"
    /\ UNCHANGED <<g0, seedA, seedB, gAB, gAA, gU>>
    /\ UNCHANGED removeOthers

RemoveThenB ==
    /\ rpc = "A"
    /\ gAB' = CascadeRemove(gA, seedB)
    /\ rpc' = "AB"
    /\ UNCHANGED <<g0, seedA, seedB, gA, gAA, gU>>
    /\ UNCHANGED removeOthers

RemoveAgainA ==
    /\ rpc = "AB"
    /\ gAA' = CascadeRemove(gA, seedA)
    /\ rpc' = "AA"
    /\ UNCHANGED <<g0, seedA, seedB, gA, gAB, gU>>
    /\ UNCHANGED removeOthers

RemoveUnion ==
    /\ rpc = "AA"
    /\ gU' = CascadeRemove(g0, seedA \cup seedB)
    /\ rpc' = "done"
    /\ UNCHANGED <<g0, seedA, seedB, gA, gAB, gAA>>
    /\ UNCHANGED removeOthers

RemoveNext == RemoveWithA \/ RemoveThenB \/ RemoveAgainA \/ RemoveUnion

SpecRemove == RemoveInit /\ [][RemoveNext]_vars

\* C6: cascading removal is composable and idempotent: removing with A and
\* then with B leaves the same resources, items and dependency edges as one
\* removal with A \cup B, and removing with A twice equals removing once.
C6_RemovalComposableIdempotent ==
    rpc = "done" => /\ Surviving(gAB) = Surviving(gU)
                    /\ Surviving(gAA) = Surviving(gA)

\* Overlapping seed sets, each removing an item of its own and a dependency.
C6_Witness ==
    /\ rpc = "done"
    /\ seedA = {"r1"}
    /\ seedB = {"r1", "r2"}
    /\ SurvivingItems(gA) # SurvivingItems(g0)
    /\ SurvivingItems(gAB) # SurvivingItems(gA)
    /\ SurvivingDeps(gAB) # SurvivingDeps(g0)

(***************************************************************************)
(* Specification SpecTF: steps 12b and 12c on one QTI file                 *)
(***************************************************************************)

\* The <response_label> entries the inputs are built from.
LabelChoices ==
    { [ident |-> "opt1", text |-> "True"],  [ident |-> "opt2", text |-> "False"],
      [ident |-> "true", text |-> "True"],  [ident |-> "false", text |-> "False"],
      [ident |-> "opt1", text |-> "Maybe"] }

\* The <varequal> texts the inputs are built from ("" is an empty element).
VarValues == {"", "true", "false", "opt1", "opt2"}

\* The question_type entries of the inputs ("" when the item has none).
QTypes == {TF_QTYPE, ""}

SeqsOver(S, n) == UNION {[1..k -> S] : k \in 0..n}

QItems ==
    { [qtype |-> q, rl |-> TRUE, labels |-> ls, nested |-> n,
       varequals |-> vs, other |-> o] :
        q \in QTypes, ls \in SeqsOver(LabelChoices, MaxLabels), n \in BOOLEAN,
        vs \in SeqsOver(VarValues, MaxVarequals), o \in BOOLEAN }
    \cup
    { [qtype |-> q, rl |-> FALSE, labels |-> <<>>, nested |-> FALSE,
       varequals |-> vs, other |-> o] :
        q \in QTypes, vs \in SeqsOver(VarValues, MaxVarequals), o \in BOOLEAN }

\* The item of the scenario: opt1/opt2, texts True/False, key opt1.
ScenarioItem ==
    [qtype |-> TF_QTYPE, rl |-> TRUE, nested |-> FALSE,
     labels |-> << [ident |-> "opt1", text |-> "True"],
                   [ident |-> "opt2", text |-> "False"] >>,
     varequals |-> <<"opt1">>, other |-> TRUE]

\* A declared true/false item with a single choice.
OneChoiceItem ==
    [qtype |-> TF_QTYPE, rl |-> TRUE, nested |-> FALSE,
     labels |-> << [ident |-> "opt1", text |-> "True"] >>,
     varequals |-> <<"opt1">>, other |-> FALSE]

\* An essay item: not a candidate.
EssayItem ==
    [qtype |-> "essay_question", rl |-> FALSE, labels |-> <<>>, nested |-> FALSE,
     varequals |-> <<>>, other |-> FALSE]

SampleItems == {ScenarioItem, OneChoiceItem, EssayItem}

\* The files of a run: every single item, and the pairs of sample items.
QFiles ==
    { <<it>> : it \in QItems } \cup { <<a, b>> : a \in SampleItems, b \in SampleItems }

TFInit ==
    /\ tpc = "fix"
    /\ fallback \in BOOLEAN
    /\ qorig \in QFiles
    /\ qfile = qorig
    /\ qidx = 1
    /\ outcomes = <<>>
    /\ tf_fixed = 0
    /\ tf_mc_fallback = 0
    /\ tf_skipped = 0
    /\ CanonIdle
    /\ ItemsIdle
    /\ RemoveIdle
    /\ PipeIdle
    /\ SweepIdle
    /\ PruneIdle

Bump(counter, name, outcome) == IF outcome = name THEN counter + 1 ELSE counter

\* One iteration of "for item in root.findall('.//{*}item')" (lines 767-846).
FixNextItem ==
    /\ tpc = "fix"
    /\ qidx <= Len(qfile)
    /\ LET r == FixItem(qfile[qidx], fallback)
       IN  /\ qfile' = [qfile EXCEPT ![qidx] = r.item]
           /\ outcomes' = Append(outcomes, r.outcome)
           /\ tf_fixed' = Bump(tf_fixed, "tf_fixed", r.outcome)
           /\ tf_mc_fallback' = Bump(tf_mc_fallback, "tf_mc_fallback", r.outcome)
           /\ tf_skipped' = Bump(tf_skipped, "tf_skipped", r.outcome)
    /\ qidx' = qidx + 1
    /\ UNCHANGED <<tpc, fallback, qorig>>
    /\ UNCHANGED tfOthers

\* The loop is over: step 12b has ended, step 12c is next.
FixDone ==
    /\ tpc = "fix"
    /\ qidx > Len(qfile)
    /\ tpc' = "verify"
    /\ UNCHANGED <<fallback, qorig, qfile, qidx, outcomes,
                   tf_fixed, tf_mc_fallback, tf_skipped>>
    /\ UNCHANGED tfOthers

\* Step 12c, assert_no_bad_tf_idents: the file is an offender, ValueError.
AssertRaises ==
    /\ tpc = "verify"
    /\ has_bad_tf_idents(qfile)
    /\ tpc' = "raised"
    /\ UNCHANGED <<fallback, qorig, qfile, qidx, outcomes,
                   tf_fixed, tf_mc_fallback, tf_skipped>>
    /\ UNCHANGED tfOthers

\* Step 12c, assert_no_bad_tf_idents: no offender, the run goes on.
AssertPasses ==
    /\ tpc = "verify"
    /\ ~has_bad_tf_idents(qfile)
    /\ tpc' = "passed"
    /\ UNCHANGED <<fallback, qorig, qfile, qidx, outcomes,
                   tf_fixed, tf_mc_fallback, tf_skipped>>
    /\ UNCHANGED tfOthers

TFNext == FixNextItem \/ FixDone \/ AssertRaises \/ AssertPasses

SpecTF == TFInit /\ [][TFNext]_vars

\* The items the loop has handled so far.
Handled == DOMAIN outcomes

CountOf(name) == Cardinality({i \in Handled : outcomes[i] = name})

\* The run has ended, one way or the other.
TFEnded == tpc \in {"raised", "passed"}

\* C7: every item detected as a two-choice candidate ends in exactly one of
\* the outcomes normalized, fallback or skipped, no other item is counted,
\* each counter counts its outcome, and so the three counters sum to the
\* number of candidates detected so far (and at the end of the pass).
C7_CountersSumToCandidates ==
    /\ \A i \in Handled :
          is_tf(qorig[i]) <=> outcomes[i] \in {"tf_fixed", "tf_mc_fallback", "tf_skipped"}
    /\ tf_fixed = CountOf("tf_fixed")
    /\ tf_mc_fallback = CountOf("tf_mc_fallback")
    /\ tf_skipped = CountOf("tf_skipped")
    /\ tf_fixed + tf_mc_fallback + tf_skipped
          = Cardinality({i \in Handled : is_tf(qorig[i])})

\* A pass over a normalizable item and a malformed one, fallback disabled.
C7_Witness ==
    /\ tpc = "verify"
    /\ ~fallback
    /\ qorig = <<ScenarioItem, OneChoiceItem>>
    /\ tf_fixed = 1
    /\ tf_skipped = 1
    /\ tf_mc_fallback = 0

\* An item declared true/false that carries three choice entries.
ThreeChoiceDeclared(it) == it.qtype = TF_QTYPE /\ it.rl /\ Len(it.labels) = 3

HasText(labels, w) == \E k \in DOMAIN labels : mattext_lower(labels[k]) = w

TextsOf(labels) == [k \in DOMAIN labels |-> mattext_lower(labels[k])]

C9_SkippedIsNotFatal ==
    /\ \A i \in Handled : outcomes[i] = "tf_skipped" => qfile[i] = qorig[i]
    /\ ( /\ TFEnded
         /\ ~fallback
         /\ tf_skipped > 0
         /\ \A i \in Handled : outcomes[i] # "tf_skipped" => ~ItemHasBadTF(qfile[i]) )
       => tpc = "passed"

KeptPositions(it) ==
    LET keep == IF Len(LabelsOf(it)) = 2 THEN <<1, 2>> ELSE CollapseKeep(LabelsOf(it))
    IN  IF keep[1] < keep[2] THEN keep ELSE <<keep[2], keep[1]>>

\* The item at position i has been handled and counted as normalized.
EndsNormalized(i) == i \in Handled /\ outcomes[i] = "tf_fixed"

\* C21: when the answer key's correct identifier is not a canonical word and
\* the texts of the two choices are the two canonical words, each choice is
\* renamed to its own text: the choice with text True to "true" and the
\* choice with text False to "false", whichever of them the key names.
C21_MappedByLiteralText ==
    \A i \in DOMAIN qorig :
        ( /\ EndsNormalized(i)
          /\ FirstNonEmpty(qorig[i].varequals) \notin CanonicalWords
          /\ { mattext_lower(qorig[i].labels[KeptPositions(qorig[i])[j]]) : j \in 1..2 }
                = CanonicalWords ) =>
            \A j \in 1..2 :
                qfile[i].labels[j].ident
                    = mattext_lower(qorig[i].labels[KeptPositions(qorig[i])[j]])

\* C22: in an item that ends normalized, an answer-key reference that named
\* the identifier of a choice names the new identifier of that same choice
\* afterwards, so the choice designated correct stays the same one, also
\* when further choices were removed.
C22_AnswerKeyFollowsItsChoice ==
    \A i \in DOMAIN qorig :
        EndsNormalized(i) =>
            \A k \in DOMAIN qorig[i].varequals :
                \A p \in DOMAIN qorig[i].labels :
                    qorig[i].labels[p].ident = qorig[i].varequals[k] =>
                        \E j \in 1..2 :
                            /\ KeptPositions(qorig[i])[j] = p
                            /\ qfile[i].labels[j].ident = qfile[i].varequals[k]

\* C23: normalizing an item whose two choices are already named "true" and
\* "false" leaves both identifiers on their choices and every answer-key
\* reference as it was, whether the key names "true" or "false".
C23_CanonicalItemKeepsIdentifiers ==
    \A i \in DOMAIN qorig :
        ( /\ EndsNormalized(i)
          /\ Len(qorig[i].labels) = 2
          /\ {qorig[i].labels[1].ident, qorig[i].labels[2].ident} = CanonicalWords
          /\ \A k \in DOMAIN qorig[i].varequals : qorig[i].varequals[k] \in CanonicalWords ) =>
            /\ qfile[i].labels = qorig[i].labels
            /\ qfile[i].varequals = qorig[i].varequals

(***************************************************************************)
(* Specification SpecSweep: the text sweep with                            *)
(* V12_TO_V11_SCHEMA_REPLACEMENTS (bump_manifest_version_and_namespaces,   *)
(* step 5, and patch_descriptor_xmls)                                      *)
(***************************************************************************)

\* The pieces the patterns of the table are written with, as code points.
\* "http://www.imsglobal.org"
U_ims ==
    <<104, 116, 116, 112, 58, 47, 47, 119, 119, 119, 46, 105, 109, 115, 103,
        108, 111, 98, 97, 108, 46, 111, 114, 103>>
\* "http://ltsc.ieee.org"
U_ltsc ==
    <<104, 116, 116, 112, 58, 47, 47, 108, 116, 115, 99, 46, 105, 101, 101,
        101, 46, 111, 114, 103>>
\* "/xsd/imsccv1p3/"
U_xsd13 ==
    <<47, 120, 115, 100, 47, 105, 109, 115, 99, 99, 118, 49, 112, 51, 47>>
\* "/xsd/imsccv1p2/"
U_xsd12 ==
    <<47, 120, 115, 100, 47, 105, 109, 115, 99, 99, 118, 49, 112, 50, 47>>
\* "/xsd/imsccv1p1/"
U_xsd11 ==
    <<47, 120, 115, 100, 47, 105, 109, 115, 99, 99, 118, 49, 112, 49, 47>>
\* "/profile/cc/ccv1p3/"
U_prof13 ==
    <<47, 112, 114, 111, 102, 105, 108, 101, 47, 99, 99, 47, 99, 99, 118, 49,
        112, 51, 47>>
\* "/profile/cc/ccv1p2/"
U_prof12 ==
    <<47, 112, 114, 111, 102, 105, 108, 101, 47, 99, 99, 47, 99, 99, 118, 49,
        112, 50, 47>>
\* "/profile/cc/ccv1p1/"
U_prof11 ==
    <<47, 112, 114, 111, 102, 105, 108, 101, 47, 99, 99, 47, 99, 99, 118, 49,
        112, 49, 47>>
\* "imscp_v1p1"
U_imscp ==
    <<105, 109, 115, 99, 112, 95, 118, 49, 112, 49>>
\* "LOM/manifest"
U_lom_manifest ==
    <<76, 79, 77, 47, 109, 97, 110, 105, 102, 101, 115, 116>>
\* "LOM/resource"
U_lom_resource ==
    <<76, 79, 77, 47, 114, 101, 115, 111, 117, 114, 99, 101>>
\* "LOM/"
U_lom ==
    <<76, 79, 77, 47>>
\* "ccv1p3_imscp_v1p2_v1p0.xsd"
U_cc13_imscp ==
    <<99, 99, 118, 49, 112, 51, 95, 105, 109, 115, 99, 112, 95, 118, 49, 112,
        50, 95, 118, 49, 112, 48, 46, 120, 115, 100>>
\* "ccv1p1_imscp_v1p1_v1p0.xsd"
U_cc11_imscp ==
    <<99, 99, 118, 49, 112, 49, 95, 105, 109, 115, 99, 112, 95, 118, 49, 112,
        49, 95, 118, 49, 112, 48, 46, 120, 115, 100>>
\* "ccv1p3_lommanifest_v1p0.xsd"
U_cc13_lommanifest ==
    <<99, 99, 118, 49, 112, 51, 95, 108, 111, 109, 109, 97, 110, 105, 102,
        101, 115, 116, 95, 118, 49, 112, 48, 46, 120, 115, 100>>
\* "ccv1p1_lommanifest_v1p0.xsd"
U_cc11_lommanifest ==
    <<99, 99, 118, 49, 112, 49, 95, 108, 111, 109, 109, 97, 110, 105, 102,
        101, 115, 116, 95, 118, 49, 112, 48, 46, 120, 115, 100>>
\* "ccv1p3_lomresource_v1p0.xsd"
U_cc13_lomresource ==
    <<99, 99, 118, 49, 112, 51, 95, 108, 111, 109, 114, 101, 115, 111, 117,
        114, 99, 101, 95, 118, 49, 112, 48, 46, 120, 115, 100>>
\* "ccv1p1_lomresource_v1p0.xsd"
U_cc11_lomresource ==
    <<99, 99, 118, 49, 112, 49, 95, 108, 111, 109, 114, 101, 115, 111, 117,
        114, 99, 101, 95, 118, 49, 112, 48, 46, 120, 115, 100>>
\* "imsdt_v1p2"
U_imsdt12 ==
    <<105, 109, 115, 100, 116, 95, 118, 49, 112, 50>>
\* "imsdt_v1p1"
U_imsdt11 ==
    <<105, 109, 115, 100, 116, 95, 118, 49, 112, 49>>
\* "imswl_v1p2"
U_imswl12 ==
    <<105, 109, 115, 119, 108, 95, 118, 49, 112, 50>>
\* "imswl_v1p1"
U_imswl11 ==
    <<105, 109, 115, 119, 108, 95, 118, 49, 112, 49>>
\* "imscp_extensionv1p2"
U_extension ==
    <<105, 109, 115, 99, 112, 95, 101, 120, 116, 101, 110, 115, 105, 111, 110,
        118, 49, 112, 50>>
\* "ccv1p3_cpextensionv1p2_v1p0.xsd"
U_cc13_cpextension ==
    <<99, 99, 118, 49, 112, 51, 95, 99, 112, 101, 120, 116, 101, 110, 115,
        105, 111, 110, 118, 49, 112, 50, 95, 118, 49, 112, 48, 46, 120, 115,
        100>>

Rule(pat, repl) == [pat |-> pat, repl |-> repl]

\* The table, in list order.
V12_TO_V11_SCHEMA_REPLACEMENTS ==
    << Rule(U_ims \o U_xsd13 \o U_imscp, U_ims \o U_xsd11 \o U_imscp),
       Rule(U_ltsc \o U_xsd13 \o U_lom_manifest, U_ltsc \o U_xsd11 \o U_lom_manifest),
       Rule(U_ltsc \o U_xsd13 \o U_lom_resource, U_ltsc \o U_xsd11 \o U_lom_resource),
       Rule(U_ims \o U_prof13 \o U_cc13_imscp, U_ims \o U_prof11 \o U_cc11_imscp),
       Rule(U_ims \o U_prof13 \o U_lom \o U_cc13_lommanifest,
            U_ims \o U_prof11 \o U_lom \o U_cc11_lommanifest),
       Rule(U_ims \o U_prof13 \o U_lom \o U_cc13_lomresource,
            U_ims \o U_prof11 \o U_lom \o U_cc11_lomresource),
       Rule(U_xsd13, U_xsd11),
       Rule(U_prof13, U_prof11),
       Rule(U_xsd12, U_xsd11),
       Rule(U_prof12, U_prof11),
       Rule(U_imsdt12, U_imsdt11),
       Rule(U_imswl12, U_imswl11),
       Rule(U_ims \o U_xsd13 \o U_extension, <<>>),
       Rule(U_ims \o U_prof13 \o U_cc13_cpextension, <<>>) >>

\* str.replace(pat, repl): every occurrence, from the left, without overlap
RECURSIVE ReplaceFrom(_, _, _, _)
ReplaceFrom(text, pat, repl, i) ==
    LET hits == {j \in i..(Len(text) - Len(pat) + 1) :
                    SubSeq(text, j, j + Len(pat) - 1) = pat}
    IN  IF hits = {} THEN SubSeq(text, i, Len(text))
        ELSE LET j == CHOOSE h \in hits : \A g \in hits : h <= g
             IN  SubSeq(text, i, j - 1) \o repl
                    \o ReplaceFrom(text, pat, repl, j + Len(pat))

Replace(text, pat, repl) == ReplaceFrom(text, pat, repl, 1)

\* The texts swept: the pattern of every rule alone, and every two patterns
\* side by side as in a schemaLocation attribute.
SweepTexts ==
    LET T == V12_TO_V11_SCHEMA_REPLACEMENTS
    IN  {T[k].pat : k \in DOMAIN T}
        \cup {T[k].pat \o <<32>> \o T[j].pat : k \in DOMAIN T, j \in DOMAIN T}

SweepInit ==
    /\ sorig \in SweepTexts
    /\ stext = sorig
    /\ sidx = 1
    /\ CanonIdle
    /\ ItemsIdle
    /\ RemoveIdle
    /\ TFIdle
    /\ PipeIdle
    /\ PruneIdle

\* for pat, repl in V12_TO_V11_SCHEMA_REPLACEMENTS: text = text.replace(pat, repl)
ApplyRule ==
    /\ sidx \in DOMAIN V12_TO_V11_SCHEMA_REPLACEMENTS
    /\ stext' = Replace(stext, V12_TO_V11_SCHEMA_REPLACEMENTS[sidx].pat,
                        V12_TO_V11_SCHEMA_REPLACEMENTS[sidx].repl)
    /\ sidx' = sidx + 1
    /\ UNCHANGED <<sorig, sweepOthers>>

\* re.sub(r'(/profile/cc/)ccv1p3(/)', r'\1ccv1p1\2', text), after the table
\* (the three substitutions that follow match an xmlns attribute or a variant
\* element, and no text swept here holds one)
FallbackProfilePath ==
    /\ sidx = Len(V12_TO_V11_SCHEMA_REPLACEMENTS) + 1
    /\ stext' = Replace(stext, U_prof13, U_prof11)
    /\ sidx' = sidx + 1
    /\ UNCHANGED <<sorig, sweepOthers>>

SweepNext == ApplyRule \/ FallbackProfilePath

SpecSweep == SweepInit /\ [][SweepNext]_vars

\* C19: when the turn of a rule comes, a text that held its pattern alone
\* still holds it: no rule applied earlier has rewritten a part of it.
C19_NoRuleIsMasked ==
    \A k \in DOMAIN V12_TO_V11_SCHEMA_REPLACEMENTS :
        (sorig = V12_TO_V11_SCHEMA_REPLACEMENTS[k].pat /\ sidx = k) =>
            Contains(stext, V12_TO_V11_SCHEMA_REPLACEMENTS[k].pat)

(***************************************************************************)
(* Specification SpecPrune: prune_items_with_missing_resources (step 13D)  *)
(* on an item tree, run a second time on its own result                    *)
(***************************************************************************)

\* The order in which prune_item_children decides the items: each item after
\* the items below it ("Recurse before deciding"), siblings in document order.
RECURSIVE VisitOrder(_, _)
VisitOrder(att, kids) ==
    IF kids = <<>> THEN <<>>
    ELSE VisitOrder(att, Children(att, Head(kids))) \o <<Head(kids)>>
            \o VisitOrder(att, Tail(kids))

\* A variant that tests for child items before the recursion into them.
ItemIsPruned_childrenBefore(att, valid_res_ids, i) ==
    \/ iref[i] # NoRef /\ iref[i] \notin valid_res_ids
    \/ iref[i] = NoRef /\ ~\E j \in DOMAIN iparent : iparent[j] = i

\* The two tests of prune_item_children on one item: it refers to a missing
\* resource, or it has no identifierref and no child item left.
ItemIsPruned(att, valid_res_ids, i) ==
    \/ iref[i] # NoRef /\ iref[i] \notin valid_res_ids
    \/ iref[i] = NoRef /\ ~\E j \in att : iparent[j] = i

PruneInit ==
    /\ iparent \in ParentMaps(MaxItems)
    /\ iref \in RefMaps(MaxItems)
    /\ pvalid \in SUBSET Rids
    /\ ppc = "first"
    /\ patt = DOMAIN iparent
    /\ ptodo = VisitOrder(DOMAIN iparent, Children(DOMAIN iparent, 0))
    /\ pfirst = {}
    /\ CanonIdle
    /\ RemoveIdle
    /\ TFIdle
    /\ PipeIdle
    /\ SweepIdle

\* One turn of the loop of prune_item_children: the decision on one item.
PruneDecide ==
    /\ ppc \in {"first", "second"}
    /\ ptodo # <<>>
    /\ patt' = IF ItemIsPruned(patt, pvalid, Head(ptodo)) THEN patt \ {Head(ptodo)} ELSE patt
    /\ ptodo' = Tail(ptodo)
    /\ UNCHANGED <<ppc, pvalid, pfirst, pruneOthers>>

\* The first run returns; the pruner is called on its result.
PruneReturns ==
    /\ ppc = "first"
    /\ ptodo = <<>>
    /\ pfirst' = patt
    /\ ptodo' = VisitOrder(patt, Children(patt, 0))
    /\ ppc' = "second"
    /\ UNCHANGED <<pvalid, patt, pruneOthers>>

\* The second run returns.
PruneAgainReturns ==
    /\ ppc = "second"
    /\ ptodo = <<>>
    /\ ppc' = "done"
    /\ UNCHANGED <<pvalid, ptodo, patt, pfirst, pruneOthers>>

PruneNext == PruneDecide \/ PruneReturns \/ PruneAgainReturns

\* The interpreter goes on running the loop while there is a turn to take.
SpecPrune == PruneInit /\ [][PruneNext]_vars /\ WF_vars(PruneNext)

\* No item left is vacuous or refers to a missing resource.
NoItemIsRemovable(att) ==
    \A i \in att : \/ iref[i] \in pvalid
                   \/ \E j \in att : iparent[j] = i

\* C25: prune_items_with_missing_resources ends on every item tree, and it
\* leaves a fixpoint: every item left names an existing resource or has a
\* child item, and a second run removes nothing, also where the removal of a
\* child has made its parent vacuous.
C25_PrunerEndsAtFixpoint ==
    <>[](/\ ppc = "done"
         /\ NoItemIsRemovable(pfirst)
         /\ patt = pfirst)

\* Both runs have ended on a tree whose container lost its only child, an
\* item of a missing resource, and was removed after it.
C25_Witness ==
    /\ ppc = "done"
    /\ iparent[1] = 0 /\ iref[1] = NoRef
    /\ iparent[2] = 1 /\ iref[2] = GhostId
    /\ pfirst = {}
    /\ patt = {}

(***************************************************************************)
(* Specification Spec: process_cartridge, one action per step              *)
(***************************************************************************)

\* The steps that touch neither the resources, the items, the payload, the
\* version nor the QTI items have no action: curriculum standards (3), item
\* titles (4), intendedUse (5), CP variants (9b), descriptor schemas (12),
\* and the audits that only print (11c+, 11e+, 13A).

\* The shapes of the <resource> elements of the inputs.
Shape(typ, href, file) == [typ |-> typ, href |-> href, file |-> file]

ShPage == Shape(T_WEB, P_a_htm, P_a_htm)
ShDoc == Shape(T_WEB, P_d_pdf, P_d_pdf)
ShLti == Shape(T_LTI, NoHref, P_l_xml)
ShLtiByFile == Shape(T_WEB, P_l_xml, P_l_xml)
ShAssign == Shape(T_ASSIGN, NoHref, NoHref)
ShDisc == Shape(T_DT12, P_d_pdf, P_d_pdf)
ShQti == Shape(T_QTI, NoHref, P_assessment)
ShQtiPlain == Shape(T_QTI, P_q_xml, P_q_xml)
ShNoHref == Shape(T_WEB, NoHref, NoHref)
ShLink == Shape(T_WL12, NoHref, P_d_pdf)
ShEpub == Shape(T_EPUB, P_d_pdf, P_d_pdf)
ShPageWithQuiz == Shape(T_WEB, P_a_htm, P_q_xml)

\* One shape per reason a resource is removed for, and the shapes kept.
GraphShapes == {ShPage, ShLti, ShLtiByFile, ShAssign, ShDisc, ShQti, ShQtiPlain, ShNoHref}

\* The payload files of the graph inputs: q.xml is an assessment without
\* items, q/assessment_qti.xml holds the scenario item.
GraphDisk ==
    [q \in {P_a_htm, P_d_pdf, P_l_xml, P_q_xml, P_assessment} |->
        IF q = P_a_htm THEN HtmlContent
        ELSE IF q = P_d_pdf THEN BinContent
        ELSE IF q = P_l_xml THEN LtiContent
        ELSE IF q = P_q_xml THEN QtiContent(<<>>)
        ELSE QtiContent(<<ScenarioItem>>)]

\* The dependency edges of the graph inputs.
GraphDeps ==
    { [r \in Rids |-> {}],
      [r \in Rids |-> IF r = "r1" THEN {"r2"} ELSE {}],
      [r \in Rids |-> IF r = "r2" THEN {"r1"} ELSE {}],
      [r \in Rids |-> IF r = "r1" THEN {GhostId} ELSE {"r1"}] }

\* The organizations of the inputs: the parent and the identifierref of
\* every item.
ItemTree(parent, ref) == [parent |-> parent, ref |-> ref]

FlatTree == ItemTree(<<0, 0>>, <<"r1", "r2">>)
GhostTree == ItemTree(<<0, 0>>, <<GhostId, "r2">>)

PipeTrees ==
    { FlatTree,
      GhostTree,
      ItemTree(<<0, 1>>, <<"r1", "r2">>),
      ItemTree(<<0, 1>>, <<"r2", "r1">>),
      ItemTree(<<0, 1, 1>>, <<NoRef, "r1", "r2">>),
      ItemTree(<<0, 1, 2>>, <<NoRef, NoRef, "r1">>) }

ExcludeChoices == { {}, {"page"}, {"discussion", "qti"} }

\* A manifest built from the shapes of its resources.
MkTree(present, shapes, deps, items, ver, markers) ==
    [present |-> present,
     typ |-> [r \in Rids |-> shapes[r].typ],
     href |-> [r \in Rids |-> shapes[r].href],
     file |-> [r \in Rids |-> shapes[r].file],
     extra |-> [r \in Rids |-> <<>>],
     deps |-> deps,
     attached |-> DOMAIN items.parent,
     ver |-> ver,
     markers |-> markers,
     v12uri |-> FALSE]

\* Inputs about the graph: two resources of any two shapes, dependency
\* edges, an organization, an exclude set; version 1.2.0.
GraphInputs ==
    { [items |-> it, fallback |-> FALSE, exclude |-> ex, at_root |-> TRUE,
       man |-> MkTree(Rids, [r \in Rids |-> IF r = "r1" THEN s1 ELSE s2], dp, it,
                      V_1_2_0, {}),
       files |-> GraphDisk] :
        s1 \in GraphShapes, s2 \in GraphShapes, dp \in GraphDeps,
        it \in PipeTrees, ex \in ExcludeChoices }

\* Inputs about the payload: one resource whose href and file href are
\* encoding variants, over every set of files present.
PayloadPaths == {P_a_htm, P_b_c_htm, P_b20c_htm, P_d_pdf}

PayloadInputs ==
    { [items |-> ItemTree(<<0>>, <<"r1">>), fallback |-> FALSE, exclude |-> {},
       at_root |-> TRUE,
       man |-> MkTree({"r1"}, [r \in Rids |-> Shape(ty, h, f)],
                      [r \in Rids |-> {}], ItemTree(<<0>>, <<"r1">>), V_1_2_0, {}),
       files |-> [q \in fs |-> IF q = P_d_pdf THEN BinContent ELSE HtmlContent]] :
        ty \in {T_WEB, T_DT11}, h \in PayloadPaths \cup {NoHref},
        f \in PayloadPaths \cup {NoHref}, fs \in SUBSET PayloadPaths }

\* Inputs about further <file> children: a resource with a href, a first
\* <file> and one or two more, equal to the canonical href or not.
ExtraInputs ==
    { [items |-> ItemTree(<<0>>, <<"r1">>), fallback |-> FALSE, exclude |-> {},
       at_root |-> TRUE,
       man |-> [MkTree({"r1"}, [r \in Rids |-> Shape(T_WEB, h, f)],
                       [r \in Rids |-> {}], ItemTree(<<0>>, <<"r1">>), V_1_2_0, {})
                   EXCEPT !.extra["r1"] = ex],
       files |-> [q \in fs |-> IF q = P_d_pdf THEN BinContent ELSE HtmlContent]] :
        h \in {P_a_htm, P_b_c_htm, P_b20c_htm}, f \in {P_a_htm, P_b_c_htm, P_b20c_htm},
        ex \in {<<P_d_pdf>>, <<P_b20c_htm>>, <<P_b_c_htm>>, <<P_a_htm, P_d_pdf>>},
        fs \in {PayloadPaths, {P_d_pdf}, {}} }

\* Inputs about the gate and the checks: every version, forbidden words in
\* every place, a manifest at the root or not, an organization with or
\* without an item naming no resource, and a quiz that is absent, regular
\* or malformed, at a plain path or at a Canvas path.
Versions == {V_1_0_0, V_1_1_0, V_1_2_0, V_1_3_0, V_1_10_0}

QuizChoices ==
    { [shape |-> ShDoc, files |-> NoFiles] }
    \cup
    { [shape |-> sh, files |-> [q \in {sh.file} |-> QtiContent(<<it>>)]] :
        sh \in {ShQti, ShQtiPlain}, it \in {ScenarioItem, OneChoiceItem} }

CheckInputs ==
    { [items |-> it, fallback |-> fb, exclude |-> {}, at_root |-> ar,
       man |-> MkTree(Rids, [r \in Rids |-> IF r = "r1" THEN ShPage ELSE qz.shape],
                      [r \in Rids |-> {}], it, v, mk),
       files |-> [q \in {P_a_htm, P_d_pdf} \cup DOMAIN qz.files |->
                     IF q = P_a_htm THEN HtmlContent
                     ELSE IF q = P_d_pdf THEN BinContent
                     ELSE qz.files[q]]] :
        it \in {FlatTree, GhostTree}, fb \in BOOLEAN, ar \in BOOLEAN,
        v \in Versions, mk \in SUBSET MarkerKinds, qz \in QuizChoices }

\* Inputs about external tool links: a link by its type or by its
\* descriptor, a second resource that may depend on it, every organization,
\* and the versions above 1.1.0.
LtiInputs ==
    { [items |-> it, fallback |-> FALSE, exclude |-> {}, at_root |-> TRUE,
       man |-> MkTree(Rids, [r \in Rids |-> IF r = "r1" THEN s1 ELSE s2], dp, it, v, {}),
       files |-> GraphDisk] :
        s1 \in {ShLti, ShLtiByFile}, s2 \in {ShPage, ShLti}, dp \in GraphDeps,
        it \in PipeTrees, v \in {V_1_2_0, V_1_3_0, V_1_10_0} }

\* Inputs about the exclude set: one resource of every kind the classifiers
\* tell apart, next to a page, under every set of kinds.
ExcludeInputs ==
    { [items |-> FlatTree, fallback |-> FALSE, exclude |-> ks, at_root |-> TRUE,
       man |-> MkTree(Rids, [r \in Rids |-> IF r = "r1" THEN s1 ELSE ShPage],
                      [r \in Rids |-> {}], FlatTree, V_1_2_0, {}),
       files |-> GraphDisk] :
        s1 \in {ShPage, ShDoc, ShDisc, ShQti, ShLink, ShEpub, ShPageWithQuiz},
        ks \in SUBSET Kinds }

\* Inputs without a manifest: an archive of payload files only.
NoManifestInputs ==
    { [items |-> ItemTree(<<>>, <<>>), fallback |-> fb, exclude |-> {}, at_root |-> FALSE,
       man |-> NoTree, files |-> fs] :
        fb \in BOOLEAN, fs \in {NoFiles, GraphDisk} }

\* Inputs about an assessment whose reference and whose file differ in
\* percent-encoding: the reference and the name of the file are each the
\* encoded or the decoded form of one path; the file holds the scenario item.
EncodedQuizInputs ==
    { [items |-> FlatTree, fallback |-> FALSE, exclude |-> {}, at_root |-> TRUE,
       man |-> MkTree(Rids, [r \in Rids |-> IF r = "r1" THEN Shape(T_QTI, h, h) ELSE ShDoc],
                      [r \in Rids |-> {}], FlatTree, V_1_2_0, {}),
       files |-> [q \in {f, P_d_pdf} |->
                     IF q = P_d_pdf THEN BinContent ELSE QtiContent(<<ScenarioItem>>)]] :
        h \in {P_q_z_xml, P_q20z_xml}, f \in {P_q_z_xml, P_q20z_xml} }

\* Inputs about payload files that no resource refers to: the decoded and
\* the encoded names of two paths, the escape written with either case of
\* the hexadecimal digits.
DuplicatePaths == {P_b_c_htm, P_b20c_htm, P_e_f_htm, P_e2Bf_htm, P_e2bf_htm}

DuplicateInputs ==
    { [items |-> FlatTree, fallback |-> FALSE, exclude |-> {}, at_root |-> TRUE,
       man |-> MkTree(Rids, [r \in Rids |-> ShDoc], [r \in Rids |-> {}], FlatTree,
                      V_1_2_0, {}),
       files |-> [q \in fs \cup {P_d_pdf} |->
                     IF q = P_d_pdf THEN BinContent ELSE HtmlContent]] :
        fs \in SUBSET DuplicatePaths }

\* Inputs about stubs: a page whose file a.htm may be missing, in a package
\* that may hold a file a.html, which a second resource may refer to.
StubInputs ==
    { [items |-> FlatTree, fallback |-> FALSE, exclude |-> {}, at_root |-> TRUE,
       man |-> MkTree(Rids, [r \in Rids |-> IF r = "r1" THEN ShPage ELSE s2],
                      [r \in Rids |-> {}], FlatTree, V_1_2_0, {}),
       files |-> [q \in fs \cup {P_d_pdf} |->
                     IF q = P_d_pdf THEN BinContent ELSE HtmlContent]] :
        s2 \in {ShDoc, Shape(T_WEB, P_a_html, P_a_html)},
        fs \in SUBSET {P_a_htm, P_a_html} }

\* Inputs about the text sweep: a manifest that holds a v1p2 URI in a text
\* node, alone or next to a forbidden word in the places the passes on the
\* tree rewrite.
SweepLossInputs ==
    { [items |-> FlatTree, fallback |-> FALSE, exclude |-> {}, at_root |-> TRUE,
       man |-> [MkTree(Rids, [r \in Rids |-> ShDoc], [r \in Rids |-> {}], FlatTree, v, mk)
                   EXCEPT !.v12uri = TRUE],
       files |-> GraphDisk] :
        v \in {V_1_2_0, V_1_3_0}, mk \in SUBSET {"schemaLocation", "namespace"} }

Inputs ==
    GraphInputs \cup PayloadInputs \cup CheckInputs \cup LtiInputs \cup ExcludeInputs
        \cup NoManifestInputs \cup ExtraInputs \cup SweepLossInputs
        \cup EncodedQuizInputs \cup DuplicateInputs \cup StubInputs

Init ==
    /\ \E i \in Inputs :
          /\ iparent = i.items.parent
          /\ iref = i.items.ref
          /\ fallback = i.fallback
          /\ exclude_kinds = i.exclude
          /\ has_manifest = (i.man # NoTree)
          /\ at_root = i.at_root
          /\ input = [written |-> TRUE, man |-> i.man, files |-> i.files]
          /\ tree = i.man
          /\ saved = i.man
          /\ disk = i.files
    /\ pc = "s1"
    /\ removed_any = {}
    /\ out = NoArchive
    /\ tf_fixed = 0
    /\ tf_mc_fallback = 0
    /\ tf_skipped = 0
    /\ tpc = "idle"
    /\ qorig = <<>>
    /\ qfile = <<>>
    /\ qidx = 0
    /\ outcomes = <<>>
    /\ CanonIdle
    /\ RemoveIdle
    /\ SweepIdle
    /\ PruneIdle

\* What no step of the pipeline changes: the arguments of the call.
pipeArgs == <<fallback, exclude_kinds, has_manifest, at_root, input>>

tfCounts == <<tf_fixed, tf_mc_fallback, tf_skipped>>

\* Step 1: the archive is extracted; FileNotFoundError when no
\* imsmanifest.xml is in it, at the root or below.
ManifestMissing ==
    /\ pc = "s1"
    /\ ~has_manifest
    /\ pc' = "raised"
    /\ UNCHANGED <<pipeArgs, pipeOthers, tree, saved, disk, removed_any, out, tfCounts>>

\* Steps 1 and 2: the manifest is found and parsed.
ManifestFound ==
    /\ pc = "s1"
    /\ has_manifest
    /\ pc' = "gate"
    /\ UNCHANGED <<pipeArgs, pipeOthers, tree, saved, disk, removed_any, out, tfCounts>>

\* The test of step 2b on a manifest and the extracted files.
GateOpen(m, d) == IsTargetOrOlder(m.ver) /\ ~detect_canvas_qti_artifacts(m, d)

\* A gate that looks at the version alone.
PassesThrough_versionOnly == IsTargetOrOlder(tree.ver)

\* The gate of step 2b.
PassesThrough == GateOpen(saved, disk)

\* Step 2b: a package at version 1.0 or 1.1 without Canvas QTI artifacts is
\* copied to the output directory and its path returned.
PassThrough ==
    /\ pc = "gate"
    /\ PassesThrough
    /\ out' = input
    /\ pc' = "returned"
    /\ UNCHANGED <<pipeArgs, pipeOthers, tree, saved, disk, removed_any, tfCounts>>

\* Step 2b: every other package takes the full pipeline.
Proceed ==
    /\ pc = "gate"
    /\ ~PassesThrough
    /\ pc' = "s6"
    /\ UNCHANGED <<pipeArgs, pipeOthers, tree, saved, disk, removed_any, out, tfCounts>>

\* Step 6: remove_assignment_extension_resources
RemoveAssignmentResources ==
    /\ pc = "s6"
    /\ tree' = RemoveResources(tree, AssignmentIds(tree))
    /\ removed_any' = AssignmentIds(tree)
    /\ pc' = "s7"
    /\ UNCHANGED <<pipeArgs, pipeOthers, saved, disk, out, tfCounts>>

\* Step 7: remove_lti_resources
RemoveLtiResources ==
    /\ pc = "s7"
    /\ tree' = RemoveResources(tree, LtiIds(tree, disk))
    /\ removed_any' = removed_any \cup LtiIds(tree, disk)
    /\ pc' = "s7b"
    /\ UNCHANGED <<pipeArgs, pipeOthers, saved, disk, out, tfCounts>>

\* Step 7b: drop_resources_by_kind when kinds are excluded; the manifest is
\* saved when something was dropped.
DropExcludedKinds ==
    /\ pc = "s7b"
    /\ tree' = IF exclude_kinds # {} THEN drop_resources_by_kind(tree, disk, exclude_kinds)
               ELSE tree
    /\ saved' = IF exclude_kinds # {} /\ DroppedIds(tree, disk, exclude_kinds) # {}
                THEN tree' ELSE saved
    /\ pc' = "s8"
    /\ UNCHANGED <<pipeArgs, pipeOthers, disk, removed_any, out, tfCounts>>

\* Step 8: items and dependencies referring to the resources of steps 6, 7
RemoveReferences ==
    /\ pc = "s8"
    /\ tree' = IF removed_any # {} THEN CascadeRemove(tree, removed_any) ELSE tree
    /\ pc' = "s9"
    /\ UNCHANGED <<pipeArgs, pipeOthers, saved, disk, removed_any, out, tfCounts>>

\* Steps 9 and 10: downshift_resource_types, then save_manifest
DownshiftAndSave ==
    /\ pc = "s9"
    /\ tree' = downshift_resource_types(tree)
    /\ saved' = tree'
    /\ pc' = "s11"
    /\ UNCHANGED <<pipeArgs, pipeOthers, disk, removed_any, out, tfCounts>>

\* Step 11: bump_manifest_version_and_namespaces edits the tree, saves it
\* and rewrites the text of the file.
BumpVersion ==
    /\ pc = "s11"
    /\ tree' = bump_tree(tree)
    /\ saved' = sweep_text(tree')
    /\ pc' = "s11b"
    /\ UNCHANGED <<pipeArgs, pipeOthers, disk, removed_any, out, tfCounts>>

\* Step 11b: normalize_default_ns, then save_manifest
NormalizeNamespaces ==
    /\ pc = "s11b"
    /\ tree' = normalize_default_ns(tree)
    /\ saved' = tree'
    /\ pc' = "s11c"
    /\ UNCHANGED <<pipeArgs, pipeOthers, disk, removed_any, out, tfCounts>>

\* Step 11c: fix_qti_resource_hrefs, saved when something was patched
FixQtiHrefs ==
    /\ pc = "s11c"
    /\ tree' = fix_qti_resource_hrefs(tree)
    /\ saved' = IF QtiHrefPatched(tree) # {} THEN tree' ELSE saved
    /\ pc' = "s11d"
    /\ UNCHANGED <<pipeArgs, pipeOthers, disk, removed_any, out, tfCounts>>

\* Step 11d: remove_empty_qti_assessments, saved when something was removed
RemoveEmptyAssessments ==
    /\ pc = "s11d"
    /\ tree' = IF EmptyQtiIds(tree, disk) # {}
               THEN remove_empty_qti_assessments(tree, disk) ELSE tree
    /\ saved' = IF EmptyQtiIds(tree, disk) # {} THEN tree' ELSE saved
    /\ pc' = "s11e"
    /\ UNCHANGED <<pipeArgs, pipeOthers, disk, removed_any, out, tfCounts>>

\* Step 11e: sanitize_html_like_resources, saved when it counted a change
Sanitize ==
    /\ pc = "s11e"
    /\ LET st == sanitize_html_like_resources(tree, disk)
       IN  /\ tree' = st.t
           /\ disk' = st.d
           /\ saved' = IF st.removed > 0 \/ st.patched > 0 THEN st.t ELSE saved
    /\ pc' = "s12b"
    /\ UNCHANGED <<pipeArgs, pipeOthers, removed_any, out, tfCounts>>

\* Step 12b: normalize_true_false_qti
NormalizeTrueFalse ==
    /\ pc = "s12b"
    /\ disk' = normalize_true_false_qti(disk, fallback)
    /\ tf_fixed' = tf_fixed + OutcomeCount(disk, QtiXmlFiles(disk), fallback, "tf_fixed")
    /\ tf_mc_fallback' =
          tf_mc_fallback + OutcomeCount(disk, QtiXmlFiles(disk), fallback, "tf_mc_fallback")
    /\ tf_skipped' = tf_skipped + OutcomeCount(disk, QtiXmlFiles(disk), fallback, "tf_skipped")
    /\ pc' = "s12c"
    /\ UNCHANGED <<pipeArgs, pipeOthers, tree, saved, removed_any, out>>

\* Step 12c: assert_no_bad_tf_idents raises ValueError
TrueFalseCheckRaises ==
    /\ pc = "s12c"
    /\ HasTfOffender(disk)
    /\ pc' = "raised"
    /\ UNCHANGED <<pipeArgs, pipeOthers, tree, saved, disk, removed_any, out, tfCounts>>

\* Step 12c: assert_no_bad_tf_idents finds no offender
TrueFalseCheckPasses ==
    /\ pc = "s12c"
    /\ ~HasTfOffender(disk)
    /\ pc' = "s13B"
    /\ UNCHANGED <<pipeArgs, pipeOthers, tree, saved, disk, removed_any, out, tfCounts>>

\* A variant of step 13B that packs the folder before it raises.
MarkerCheckRaises_afterRezip ==
    /\ pc = "s13B"
    /\ IF at_root THEN HasForbiddenMarker(saved) ELSE TRUE
    /\ out' = [written |-> TRUE, man |-> saved, files |-> disk]
    /\ pc' = "raised"
    /\ UNCHANGED <<pipeArgs, pipeOthers, tree, saved, disk, removed_any, tfCounts>>

\* A variant of step 13B that lets every manifest at the root pass.
MarkerCheckPasses_unchecked ==
    /\ pc = "s13B"
    /\ at_root
    /\ pc' = "s13C"
    /\ UNCHANGED <<pipeArgs, pipeOthers, tree, saved, disk, removed_any, out, tfCounts>>

\* Step 13B reads imsmanifest.xml at the root of the extraction folder:
\* FileNotFoundError when the manifest lies elsewhere, ValueError when the
\* text holds a forbidden word.
MarkerCheckRaises ==
    /\ pc = "s13B"
    /\ IF at_root THEN HasForbiddenMarker(saved) ELSE TRUE
    /\ pc' = "raised"
    /\ UNCHANGED <<pipeArgs, pipeOthers, tree, saved, disk, removed_any, out, tfCounts>>

MarkerCheckPasses ==
    /\ pc = "s13B"
    /\ at_root /\ ~HasForbiddenMarker(saved)
    /\ pc' = "s13C"
    /\ UNCHANGED <<pipeArgs, pipeOthers, tree, saved, disk, removed_any, out, tfCounts>>

\* Step 13C: the final audit, saved when it changed something
FinalAudit ==
    /\ pc = "s13C"
    /\ LET st == final_audit(tree, disk)
       IN  /\ tree' = st.t
           /\ disk' = st.d
           /\ saved' = IF st.dirty THEN st.t ELSE saved
    /\ pc' = "s13D"
    /\ UNCHANGED <<pipeArgs, pipeOthers, removed_any, out, tfCounts>>

\* Step 13D: prune_items_with_missing_resources, saved when it removed items
PruneItems ==
    /\ pc = "s13D"
    /\ tree' = prune_items_with_missing_resources(tree)
    /\ saved' = IF PrunedItems(tree) # {} THEN tree' ELSE saved
    /\ pc' = "s13E"
    /\ UNCHANGED <<pipeArgs, pipeOthers, disk, removed_any, out, tfCounts>>

\* Step 13E: normalize_resource_hrefs, then enforce_decoded_payload, saved
\* when one of them counted a change
RepairPayload ==
    /\ pc = "s13E"
    /\ LET n == normalize_resource_hrefs(tree, disk)
           e == enforce_decoded_payload(n.t, n.d)
       IN  /\ tree' = n.t
           /\ disk' = e.d
           /\ saved' = IF n.changed_href > 0 \/ n.created_files > 0 \/ e.moved > 0
                          \/ e.removed > 0 \/ e.created > 0
                       THEN n.t ELSE saved
    /\ pc' = "s14a"
    /\ UNCHANGED <<pipeArgs, pipeOthers, removed_any, out, tfCounts>>

\* Step 14a: dedupe_keep_decoded
Dedupe ==
    /\ pc = "s14a"
    /\ disk' = dedupe_keep_decoded(disk)
    /\ pc' = "s14b"
    /\ UNCHANGED <<pipeArgs, pipeOthers, tree, saved, removed_any, out, tfCounts>>

\* Step 14b: rezip_folder packs the extraction folder, manifest included;
\* the folder is deleted and the path of the archive returned.
Rezip ==
    /\ pc = "s14b"
    /\ out' = [written |-> TRUE, man |-> saved, files |-> disk]
    /\ disk' = NoFiles
    /\ pc' = "returned"
    /\ UNCHANGED <<pipeArgs, pipeOthers, tree, saved, removed_any, tfCounts>>

Next ==
    \/ ManifestMissing \/ ManifestFound
    \/ PassThrough \/ Proceed
    \/ RemoveAssignmentResources \/ RemoveLtiResources \/ DropExcludedKinds
    \/ RemoveReferences \/ DownshiftAndSave \/ BumpVersion \/ NormalizeNamespaces
    \/ FixQtiHrefs \/ RemoveEmptyAssessments \/ Sanitize
    \/ NormalizeTrueFalse \/ TrueFalseCheckRaises \/ TrueFalseCheckPasses
    \/ MarkerCheckRaises \/ MarkerCheckPasses
    \/ FinalAudit \/ PruneItems \/ RepairPayload \/ Dedupe \/ Rezip

Spec == Init /\ [][Next]_vars

(***************************************************************************)
(* Claims about process_cartridge                                          *)
(***************************************************************************)

\* The run took the full pipeline and returned the path of its archive.
FullRunReturned == pc = "returned" /\ ~GateOpen(input.man, input.files)

\* The run returned the path of a copy of its input.
PassThroughReturned == pc = "returned" /\ GateOpen(input.man, input.files)

\* The items of the organizations of the returned manifest.
OutItems == {i \in DOMAIN iparent : InDocument(out.man.attached, i)}

\* The items of the organizations of the input manifest.
InputItems == {i \in DOMAIN iparent : InDocument(input.man.attached, i)}

\* C1: after a full run returns, every resource of the returned manifest has
\* a payload file in the archive at exactly the path its href gives.
C1_PayloadAtCanonicalHref ==
    FullRunReturned =>
        \A r \in out.man.present :
            out.man.href[r] # NoHref /\ Exists(out.files, out.man.href[r])

\* C2: after a full run returns, no item of the returned manifest has an
\* identifierref naming a resource that is not in the manifest, whatever the
\* reasons resources were removed for.
C2_NoItemRefersToMissingResource ==
    FullRunReturned =>
        \A i \in OutItems : iref[i] = NoRef \/ iref[i] \in out.man.present

\* A full run returned, an item of the input named a resource that is not
\* in the returned manifest, and another item is still in it.
C2_Witness ==
    /\ FullRunReturned
    /\ \E i \in InputItems : iref[i] # NoRef /\ iref[i] \notin out.man.present
    /\ \E i \in OutItems : iref[i] \in out.man.present

\* C3: after a full run returns, every dependency of every resource of the
\* returned manifest names a resource of that manifest.
C3_NoDependencyOnMissingResource ==
    FullRunReturned =>
        \A r \in out.man.present : out.man.deps[r] \subseteq out.man.present

\* The conditions of the verifier on an archive: no item names a missing
\* resource, no QTI file holds a True/False item with other identifiers
\* than true and false, no forbidden word is in the manifest text.
VerifierHolds(a) ==
    /\ \A i \in DOMAIN iparent :
          InDocument(a.man.attached, i) =>
              iref[i] = NoRef \/ iref[i] \in a.man.present
    /\ ~\E q \in DOMAIN a.files :
          /\ a.files[q].kind = "qti"
          /\ IsXmlName(q)
          /\ \E k \in DOMAIN a.files[q].items : ItemHasBadTF(a.files[q].items[k])
    /\ a.man.markers = {}

DigitsValue(ds) ==
    LET RECURSIVE val(_)
        val(n) == IF n = 0 THEN 0 ELSE 10 * val(n - 1) + (ds[n] - 48)
    IN  val(Len(ds))

\* The numbers of a version string, major first: "1.10.0" is <<1, 10, 0>>.
VersionNumbers(v) ==
    LET RECURSIVE split(_, _, _)
        split(i, cur, acc) ==
            IF i > Len(v) THEN Append(acc, DigitsValue(cur))
            ELSE IF v[i] = DOT THEN split(i + 1, <<>>, Append(acc, DigitsValue(cur)))
            ELSE split(i + 1, Append(cur, v[i]), acc)
    IN  split(1, <<>>, <<>>)

\* Version a is lower than version b, number by number.
VersionLess(a, b) ==
    LET x == VersionNumbers(a)
        y == VersionNumbers(b)
    IN  \E k \in 1..3 : x[k] < y[k] /\ \A j \in 1..(k - 1) : x[j] = y[j]

\* The external tool links of the input that an item of the input refers to.
ReferencedLinks ==
    {r \in LtiIds(input.man, input.files) : \E i \in InputItems : iref[i] = r}

\* C11: a run that returns on a document whose version is above 1.1.0 and
\* that holds an external tool link an item refers to, returns a manifest at
\* version 1.1.0, without the link, without an item referring to it and
\* without a dependency on it.
C11_LinkRemovedAndVersionAtTarget ==
    (pc = "returned" /\ VersionLess(V_1_1_0, input.man.ver) /\ ReferencedLinks # {}) =>
        /\ out.man.ver = V_1_1_0
        /\ \A r \in ReferencedLinks :
              /\ r \notin out.man.present
              /\ \A i \in OutItems : iref[i] # r
              /\ \A q \in out.man.present : r \notin out.man.deps[q]

\* The test drop_resources_by_kind makes for a kind on a resource.
ClassifiedAs(t, d, r, kind) ==
    IF kind = "qti" THEN is_qti_resource(t, d, r)
    ELSE IF kind = "discussion" THEN is_discussion_resource(t, d, r)
    ELSE IF kind = "weblink" THEN is_weblink_resource(t, d, r)
    ELSE IF kind = "page" THEN is_webcontent_page(t, d, r)
    ELSE IF kind = "webcontent" THEN IsWebcontentType(t.typ[r])
    ELSE is_file_resource(t, d, r)

\* C12: after a full run returns, no resource of the input that tests
\* positive for a kind of the exclude set is in the returned manifest, under
\* every set of kinds.
C12_ExcludedKindsAreAbsent ==
    FullRunReturned =>
        \A k \in exclude_kinds : \A r \in input.man.present :
            ClassifiedAs(input.man, input.files, r, k) => r \notin out.man.present

\* C13: a run that raised, at the manifest lookup, at the True/False check
\* or at the marker check, has written no archive to the output directory.
C13_RaisedRunWritesNoArchive == pc = "raised" => out = NoArchive

\* A run raised after it had rewritten the manifest in the extraction
\* folder.
C13_Witness == pc = "raised" /\ has_manifest /\ saved # input.man /\ ~out.written

\* C14: a run goes past the marker check only with a manifest file that
\* holds no forbidden word (with one it raises there), and the manifest
\* stays so up to and in the archive a full run returns.
C14_NoForbiddenMarkerIsPackaged ==
    /\ pc \in {"s13C", "s13D", "s13E", "s14a", "s14b"} => saved.markers = {}
    /\ FullRunReturned => out.man.markers = {}

\* A full run returned on an input whose manifest held forbidden words.
C14_Witness == FullRunReturned /\ input.man.markers # {} /\ out.man.markers = {}

\* C15: a run that returns has set a version at or above 1.2.0 to 1.1.0
\* and has raised no version.
C15_VersionOnlyDowngraded ==
    pc = "returned" =>
        /\ ~VersionLess(input.man.ver, V_1_2_0) => out.man.ver = V_1_1_0
        /\ ~VersionLess(input.man.ver, out.man.ver)

\* The hrefs of a resource agree: the href is canonical and every <file>
\* child has the same href.
HrefsAgree(t, r) ==
    /\ t.href[r] # NoHref
    /\ canonicalize_href(t.href[r]) = t.href[r]
    /\ \A k \in DOMAIN FileRefs(t, r) : FileRefs(t, r)[k] = t.href[r]

\* C16: after normalize_resource_hrefs has run, every resource of the
\* manifest has a canonical href and no <file> child with another href, in
\* the tree, in the manifest file and in the archive returned.
C16_HrefsAgreeAfterNormalization ==
    /\ pc \in {"s14a", "s14b"} =>
          \A r \in tree.present : HrefsAgree(tree, r) /\ HrefsAgree(saved, r)
    /\ FullRunReturned => \A r \in out.man.present : HrefsAgree(out.man, r)

\* A full run returned a resource whose input had a non-canonical href and a
\* further <file> child with another href.
C16_Witness ==
    /\ FullRunReturned
    /\ \E r \in out.man.present :
          /\ canonicalize_href(input.man.href[r]) # input.man.href[r]
          /\ \E k \in DOMAIN input.man.extra[r] :
                input.man.extra[r][k] # canonicalize_href(input.man.href[r])
          /\ HrefsAgree(out.man, r)

\* A file with content c lies at the canonical or at the decoded path of
\* the reference h.
BackedBy(d, h, c) ==
    \E q \in {canonicalize_href(h), Unquote(canonicalize_href(h))} :
        Exists(d, q) /\ d[q] = c

\* A step of the payload repair (13E, 14a) leaves, for every file that lay
\* at the href of a resource, its content at the canonical or the decoded
\* path of that href.
RepairStepKeepsReferencedFiles ==
    pc \in {"s13E", "s14a"} =>
        \A r \in tree.present :
            (tree.href[r] # NoHref /\ Exists(disk, tree.href[r])) =>
                BackedBy(disk', tree.href[r], disk[tree.href[r]])

\* C17: the payload repair passes never delete the only copy of a file a
\* resource refers to.
C17_PayloadRepairKeepsReferencedFiles == [][RepairStepKeepsReferencedFiles]_vars

\* A step between the marker check (13B) and the packaging (14b) leaves the
\* manifest file and the payload files as they were checked.
StepAfterChecksChangesNothing ==
    pc \in {"s13C", "s13D", "s13E", "s14a"} => saved' = saved /\ disk' = disk

\* C18: the checks run last, no step changes the manifest or the payload
\* between the last check and the packaging.
C18_NothingChangesAfterTheChecks == [][StepAfterChecksChangesNothing]_vars

\* A resource that drop_resources_by_kind removes as a page had tested
\* negative for assessment, discussion topic and web link.
DropStepRemovesAsPageOnlyAfterNegativeTests ==
    pc = "s7b" =>
        \A r \in tree.present :
            (r \notin tree'.present /\ KindHit(tree, disk, r, exclude_kinds) = "page") =>
                /\ ~is_qti_resource(tree, disk, r)
                /\ ~is_discussion_resource(tree, disk, r)
                /\ ~is_weblink_resource(tree, disk, r)

\* C20: whatever the exclude set, drop_resources_by_kind never removes as a
\* page a resource that tests positive for assessment, discussion topic or
\* web link.
C20_PageOnlyAfterNegativeTests == [][DropStepRemovesAsPageOnlyAfterNegativeTests]_vars

\* C24: cascading removal removes only the items that refer to a removed or
\* missing resource and the vacuous ones: after a full run every item of the
\* input whose identifierref names a resource of the returned manifest is
\* still in its organization, also when it was nested under a removed item.
C24_ItemOfSurvivingResourceIsKept ==
    FullRunReturned =>
        \A i \in InputItems : iref[i] \in out.man.present => i \in OutItems

\* C26: the edits of the text sweep are in the manifest that is packaged: no
\* later pass has overwritten the file with a serialization of the tree that
\* lacks them, so sweeping the returned manifest again would change nothing.
C26_SweepEditsArePackaged ==
    FullRunReturned => sweep_text(out.man) = out.man

\* remove_empty_qti_assessments keeps an assessment whose file, with an item
\* in it, exists under the decoded form of its reference.
EmptyStepKeepsAssessmentAtDecodedPath ==
    pc = "s11d" =>
        \A r \in tree.present :
            ( /\ TypeHas(tree.typ[r], "imsqti")
              /\ tree.href[r] # NoHref
              /\ Exists(disk, Unquote(tree.href[r]))
              /\ qti_item_count(disk, Unquote(tree.href[r])) > 0 ) =>
                r \in tree'.present

\* C27: no resource is removed for a missing payload while its file exists
\* under the reference as given or under its decoded form: the existence
\* check of remove_empty_qti_assessments agrees with the path that the
\* canonicalization and the repair of hrefs resolve for the reference.
C27_NoRemovalWhenFileExistsDecoded == [][EmptyStepKeepsAssessmentAtDecodedPath]_vars

\* The file q is the decoded form of its path, and the file p is another
\* file, a percent-encoded form of the same path.
EncodedDuplicate(p, q) ==
    /\ p # q
    /\ q = Unquote(canonicalize_href(q))
    /\ canonicalize_href(p) = canonicalize_href(q)

\* C28: in the archive returned no path is backed by both a decoded file
\* and a percent-encoded file: where both existed the encoded duplicate has
\* been removed before packaging.
C28_NoPathBackedTwice ==
    FullRunReturned =>
        \A p \in DOMAIN out.files : \A q \in DOMAIN out.files : ~EncodedDuplicate(p, q)

\* The passes that write stubs leave every file that existed as it was.
StubStepKeepsExistingFiles ==
    pc \in {"s11e", "s13C"} =>
        \A q \in DOMAIN disk : Exists(disk', q) /\ disk'[q] = disk[q]

\* C29: sanitize_html_like_resources and the final audit write a stub only
\* where no file existed: the content of every payload file that existed
\* before the pass is the same after it.
C29_StubNeverOverwritesAFile == [][StubStepKeepsExistingFiles]_vars

\* The check of step 13B raises only on a forbidden word in the manifest
\* that the run has saved.
MarkerStepRaisesOnlyOnMarkers ==
    (pc = "s13B" /\ pc' = "raised") => HasForbiddenMarker(saved)

\* C30: the marker check reads the manifest file that the run parsed and
\* rewrote, also when that file lies in a subdirectory of the extracted
\* tree, so a package without forbidden words passes the check.
C30_MarkerCheckReadsTheManifest == [][MarkerStepRaisesOnlyOnMarkers]_vars

=============================================================================
